---- MODULE Spec2Model ----
(***************************************************************************)
(* Repository layer of the payment domain: per-entity stores with the      *)
(* operations Add / Delete / Update / Query over three backend kinds        *)
(* (in-process ordered map, relational pool, HTTP vault).                  *)
(*                                                                         *)
(* A Go pointer field (of type pointer to int, string, Currency ...) is an *)
(* option value:                                                           *)
(* Nil is the nil pointer, Ptr(v) a pointer to v.  A SQL NULL is Nil too.  *)
(***************************************************************************)
EXTENDS Integers, Sequences, FiniteSets, TLC

Nil == <<>>
Ptr(v) == <<v>>
Deref(p) == p[1]

Min(a, b) == IF a < b THEN a ELSE b
Max(a, b) == IF a > b THEN a ELSE b

Range(s) == {s[i] : i \in 1..Len(s)}

\* the sequence s without its k-th element
Without(s, k) == SubSeq(s, 1, k - 1) \o SubSeq(s, k + 1, Len(s))

(***************************************************************************)
(* Bounds of the exploration.                                              *)
(***************************************************************************)
\* number of Add calls explored per store
MaxAdds == 2
\* largest limit and offset handed to a limit/offset specification
MaxLimit == 2

\* number of profiles and of referenced currencies added in the profile
\* scenario
MaxProfiles == 1
MaxRefs == 1
MaxCards == 2
MaxProcs == 2
MaxSessions == 2
MaxTime == 1
MaxRoutes == 2

\* the identifiers callers ask for: the assigned ones and one never assigned
Ids == 1..(MaxAdds + 1)
IdPtrs == {Nil} \cup {Ptr(i) : i \in Ids}
ProfileIds == 1..(MaxProfiles + 1)
RefIds == 1..(MaxRefs + 1)

(***************************************************************************)
(* wk8/go-ordered-map as the stores use it: an insertion-ordered list of   *)
(* (key, value) pairs; the key of an entry is kept in field k.             *)
(***************************************************************************)
OMIndex(m, key) ==
    IF \E i \in 1..Len(m) : m[i].k = key
    THEN CHOOSE i \in 1..Len(m) : m[i].k = key
    ELSE 0

OMPresent(m, key) == OMIndex(m, key) # 0

OMGet(m, key) == m[OMIndex(m, key)].v

\* a Set that moves an existing key behind the newest one
OMSetAtBack(m, key, value) ==
    Append(SelectSeq(m, LAMBDA e : e.k # key), [k |-> key, v |-> value])

\* Set keeps the position of an existing key and appends a new one
OMSet(m, key, value) ==
    IF OMPresent(m, key)
    THEN [m EXCEPT ![OMIndex(m, key)] = [k |-> key, v |-> value]]
    ELSE Append(m, [k |-> key, v |-> value])

OMDelete(m, key) ==
    SelectSeq(m, LAMBDA e : e.k # key)

OMLen(m) == Len(m)

(***************************************************************************)
(* Results of a call: err = a non-nil error was returned, notFound the     *)
(* boolean of Delete/Update, total and list the values of Query, panic =   *)
(* the call ended in a nil-pointer dereference instead of returning.       *)
(***************************************************************************)
Ok(op) ==
    [op |-> op, err |-> FALSE, notFound |-> FALSE, total |-> 0, list |-> <<>>, panic |-> FALSE]

NotFound(op) == [Ok(op) EXCEPT !.err = TRUE, !.notFound = TRUE]

Failed(op) == [Ok(op) EXCEPT !.err = TRUE]

Panicked(op) == [Ok(op) EXCEPT !.panic = TRUE]

Queried(total, list) == [Ok("Query") EXCEPT !.total = total, !.list = list]

NoCall == Ok("none")

(***************************************************************************)
(* Specifications (currency.go 225-260, profile.go 31-66).                 *)
(***************************************************************************)
WithLimitAndOffset(limit, offset) == [kind |-> "limitoffset", limit |-> limit, offset |-> offset]
ByID(id) == [kind |-> "byid", id |-> id]
ByNumericCode(n) == [kind |-> "bynumericcode", numericcode |-> n]
ByKey(key) == [kind |-> "bykey", key |-> key]

\* CurrencySpecificationWithLimitAndOffset.Specified and its copies per entity
\* a window that also takes the position offset + limit
LimitOffsetSpecifiedInclusive(spec, i) == i >= spec.offset /\ i <= spec.offset + spec.limit

LimitOffsetSpecified(spec, i) ==
    i >= spec.offset /\ i < spec.offset + spec.limit

(***************************************************************************)
(* Currency (currency.go 205-211).                                         *)
(***************************************************************************)
Currency(id, numericCode, name, charCode, exponent) ==
    [Id |-> id, NumericCode |-> numericCode, Name |-> name,
     CharCode |-> charCode, Exponent |-> exponent]

\* the records callers hand to the currency stores: Add overwrites the Id of
\* its input, Update reads every field, Delete overwrites every field but Id
CurrencyAddInputs ==
    { Currency(Nil, Nil, Ptr("euro"), Ptr("EUR"), Nil),
      Currency(Ptr(MaxRefs + 1), Nil, Ptr("euro"), Ptr("EUR"), Nil) }

CurrencyUpdateInputs ==
    {Currency(Ptr(i), Ptr(978), Nil, Nil, Ptr(2)) : i \in RefIds}
    \cup {Currency(Ptr(i), Nil, Ptr("dollar"), Nil, Nil) : i \in RefIds}
    \cup {Currency(Nil, Nil, Ptr("dollar"), Nil, Nil)}

CurrencyDeleteInputs ==
    {Currency(Ptr(i), Nil, Nil, Nil, Nil) : i \in RefIds}
    \cup {Currency(Ptr(1), Ptr(840), Ptr("dollar"), Ptr("USD"), Ptr(3)),
          Currency(Nil, Nil, Nil, Nil, Nil)}

CurrencySpecs ==
    {WithLimitAndOffset(1, 0), WithLimitAndOffset(1, 1), WithLimitAndOffset(2, 0)}
    \cup {ByID(i) : i \in RefIds} \cup {ByNumericCode(978)}

\* Specified of the three currency specifications
CurrencySpecified(spec, currency, i) ==
    CASE spec.kind = "limitoffset" -> LimitOffsetSpecified(spec, i)
      [] spec.kind = "byid" -> spec.id = Deref(currency.Id)
      [] spec.kind = "bynumericcode" -> spec.numericcode = Deref(currency.NumericCode)

\* the nil dereferences of Specified: *currency.Id and *currency.NumericCode
CurrencySpecifiedPanics(spec, currency) ==
    \/ spec.kind = "byid" /\ currency.Id = Nil
    \/ spec.kind = "bynumericcode" /\ currency.NumericCode = Nil

(***************************************************************************)
(* OrderedMapCurrencyStore (currency.go 262-364).  Every operation holds   *)
(* the store's mutex from entry to return, so it is one atomic step.  An   *)
(* operation maps the store (m, nextId) and the caller's record to the new *)
(* store, the caller's record on return and the returned values.           *)
(***************************************************************************)
Outcome(store, next, rec, ret) ==
    [store |-> store, next |-> next, rec |-> rec, ret |-> ret]

OrderedMapCurrencyStoreAdd(m, nextId, currency) ==
    LET stored == [currency EXCEPT !.Id = Ptr(nextId)]
    IN  Outcome(OMSet(m, nextId, stored), nextId + 1, stored, Ok("Add"))

\* a Delete that reports a missing record as a plain error
OrderedMapCurrencyStoreDeleteNoFlag(m, nextId, currency) ==
    IF currency.Id = Nil
    THEN Outcome(m, nextId, currency, Panicked("Delete"))
    ELSE IF ~OMPresent(m, Deref(currency.Id))
    THEN Outcome(m, nextId, currency, Failed("Delete"))
    ELSE LET deleted == OMGet(m, Deref(currency.Id))
         IN  Outcome(OMDelete(m, Deref(currency.Id)), nextId,
                     [currency EXCEPT !.NumericCode = deleted.NumericCode,
                                      !.Name = deleted.Name,
                                      !.CharCode = deleted.CharCode,
                                      !.Exponent = deleted.Exponent],
                     Ok("Delete"))

OrderedMapCurrencyStoreDelete(m, nextId, currency) ==
    IF currency.Id = Nil
    THEN Outcome(m, nextId, currency, Panicked("Delete"))
    ELSE IF ~OMPresent(m, Deref(currency.Id))
    THEN Outcome(m, nextId, currency, NotFound("Delete"))
    ELSE LET deleted == OMGet(m, Deref(currency.Id))
         IN  Outcome(OMDelete(m, Deref(currency.Id)), nextId,
                     [currency EXCEPT !.NumericCode = deleted.NumericCode,
                                      !.Name = deleted.Name,
                                      !.CharCode = deleted.CharCode,
                                      !.Exponent = deleted.Exponent],
                     Ok("Delete"))

\* a merge that stores the caller's field also when it is nil
MergeFieldUnconditional(new, old) == new

\* the merge of one field: a non-nil field of the caller wins, a nil one
\* takes the stored value
MergeField(new, old) == IF new # Nil THEN new ELSE old

\* an Update that writes the merged record under the key Add would use
OrderedMapCurrencyStoreUpdateAtNextId(m, nextId, currency) ==
    IF currency.Id = Nil
    THEN Outcome(m, nextId, currency, Panicked("Update"))
    ELSE IF ~OMPresent(m, Deref(currency.Id))
    THEN Outcome(m, nextId, currency, NotFound("Update"))
    ELSE LET old == OMGet(m, Deref(currency.Id))
             merged == [old EXCEPT
                          !.NumericCode = MergeField(currency.NumericCode, old.NumericCode),
                          !.Name = MergeField(currency.Name, old.Name),
                          !.CharCode = MergeField(currency.CharCode, old.CharCode),
                          !.Exponent = MergeField(currency.Exponent, old.Exponent)]
         IN  Outcome(OMSet(m, nextId, merged), nextId,
                     [currency EXCEPT !.NumericCode = merged.NumericCode,
                                      !.Name = merged.Name,
                                      !.CharCode = merged.CharCode,
                                      !.Exponent = merged.Exponent],
                     Ok("Update"))

OrderedMapCurrencyStoreUpdate(m, nextId, currency) ==
    IF currency.Id = Nil
    THEN Outcome(m, nextId, currency, Panicked("Update"))
    ELSE IF ~OMPresent(m, Deref(currency.Id))
    THEN Outcome(m, nextId, currency, NotFound("Update"))
    ELSE LET old == OMGet(m, Deref(currency.Id))
             merged == [old EXCEPT
                          !.NumericCode = MergeField(currency.NumericCode, old.NumericCode),
                          !.Name = MergeField(currency.Name, old.Name),
                          !.CharCode = MergeField(currency.CharCode, old.CharCode),
                          !.Exponent = MergeField(currency.Exponent, old.Exponent)]
         IN  Outcome(OMSet(m, Deref(merged.Id), merged), nextId,
                     [currency EXCEPT !.NumericCode = merged.NumericCode,
                                      !.Name = merged.Name,
                                      !.CharCode = merged.CharCode,
                                      !.Exponent = merged.Exponent],
                     Ok("Update"))

\* the forward pass of Query over the entries from position i (0-based) on
RECURSIVE CurrencyQueryLoop(_, _, _)
CurrencyQueryLoop(m, spec, i) ==
    IF i >= Len(m) THEN [panic |-> FALSE, l |-> <<>>]
    ELSE LET currency == m[i + 1].v
         IN  IF CurrencySpecifiedPanics(spec, currency)
             THEN [panic |-> TRUE, l |-> <<>>]
             ELSE LET rest == CurrencyQueryLoop(m, spec, i + 1)
                  IN  IF CurrencySpecified(spec, currency, i)
                      THEN [rest EXCEPT !.l = <<currency>> \o rest.l]
                      ELSE rest

OrderedMapCurrencyStoreQuery(m, spec) ==
    LET r == CurrencyQueryLoop(m, spec, 0)
    IN  IF r.panic THEN Panicked("Query") ELSE Queried(OMLen(m), r.l)

(***************************************************************************)
(* PGPoolCurrencyStore (currency.go 383-497) over table currencies.  The   *)
(* table is the list of its rows and seq the next value of the id          *)
(* sequence.  A statement is one atomic step of the database.              *)
(***************************************************************************)
PGRowIndex(t, idp) ==
    IF idp # Nil /\ \E i \in 1..Len(t) : t[i].Id = idp
    THEN CHOOSE i \in 1..Len(t) : t[i].Id = idp
    ELSE 0

\* COALESCE($n, column)
Coalesce(param, column) == IF param # Nil THEN param ELSE column

\* the orders in which the database may return the rows of a table
RowOrders(t) ==
    {p \in [1..Len(t) -> 1..Len(t)] : \A i, j \in 1..Len(t) : p[i] = p[j] => i = j}

Reordered(t, p) == [i \in 1..Len(t) |-> t[p[i]]]

\* "limit L offset O" applied to the rows in the order returned
LimitOffsetRows(rows, limit, offset) ==
    SubSeq(rows, offset + 1, Min(Len(rows), offset + limit))

PGPoolCurrencyStoreAdd(t, seq, currency) ==
    LET row == [currency EXCEPT !.Id = Ptr(seq)]
    IN  Outcome(Append(t, row), seq + 1, row, Ok("Add"))

PGPoolCurrencyStoreDelete(t, seq, currency) ==
    LET i == PGRowIndex(t, currency.Id)
    IN  IF i = 0
        THEN Outcome(t, seq, currency, NotFound("Delete"))
        ELSE Outcome(SelectSeq(t, LAMBDA r : r.Id # currency.Id), seq,
                     [currency EXCEPT !.NumericCode = t[i].NumericCode,
                                      !.Name = t[i].Name,
                                      !.CharCode = t[i].CharCode,
                                      !.Exponent = t[i].Exponent],
                     Ok("Delete"))

PGPoolCurrencyStoreUpdate(t, seq, currency) ==
    LET i == PGRowIndex(t, currency.Id)
    IN  IF i = 0
        THEN Outcome(t, seq, currency, NotFound("Update"))
        ELSE LET row == [t[i] EXCEPT
                           !.NumericCode = Coalesce(currency.NumericCode, t[i].NumericCode),
                           !.Name = Coalesce(currency.Name, t[i].Name),
                           !.CharCode = Coalesce(currency.CharCode, t[i].CharCode),
                           !.Exponent = Coalesce(currency.Exponent, t[i].Exponent)]
             IN  Outcome([t EXCEPT ![i] = row], seq,
                         [currency EXCEPT !.NumericCode = row.NumericCode,
                                          !.Name = row.Name,
                                          !.CharCode = row.CharCode,
                                          !.Exponent = row.Exponent],
                         Ok("Update"))

\* the rows "select ... from currencies <clauses>" yields when the database
\* returns the table in the order rows
CurrencySqlRows(rows, spec) ==
    CASE spec.kind = "limitoffset" -> LimitOffsetRows(rows, spec.limit, spec.offset)
      [] spec.kind = "byid" -> SelectSeq(rows, LAMBDA r : r.Id = Ptr(spec.id))
      [] spec.kind = "bynumericcode" ->
           SelectSeq(rows, LAMBDA r : r.NumericCode = Ptr(spec.numericcode))

PGPoolCurrencyStoreQuery(t, spec, order) ==
    Queried(Len(t), CurrencySqlRows(Reordered(t, order), spec))

(***************************************************************************)
(* Profile (profile.go 12-17): Currency is a reference, nil or a pointer   *)
(* to a Currency that is shallow (only Id set) or loaded.                  *)
(***************************************************************************)
Profile(id, key, description, currency) ==
    [Id |-> id, Key |-> key, Description |-> description, Currency |-> currency]

\* &Currency{Id: id}
ShallowCurrency(idp) == Currency(idp, Nil, Nil, Nil, Nil)

ProfileBodies ==
    { Profile(Nil, Ptr("shop"), Ptr("main"), Ptr(ShallowCurrency(Ptr(1)))),
      Profile(Nil, Ptr("cafe"), Nil, Nil),
      Profile(Nil, Nil, Nil, Ptr(ShallowCurrency(Ptr(2)))),
      Profile(Nil, Nil, Ptr("side"), Ptr(Currency(Nil, Nil, Ptr("euro"), Nil, Nil))),
      Profile(Nil, Nil, Nil, Nil) }

ProfileAddInputs ==
    ProfileBodies \cup {Profile(Ptr(MaxProfiles + 1), Ptr("cafe"), Nil, Nil)}

ProfileUpdateInputs ==
    {[b EXCEPT !.Id = Ptr(i)] : b \in ProfileBodies, i \in ProfileIds}
    \cup {Profile(Nil, Ptr("cafe"), Nil, Nil)}

ProfileDeleteInputs ==
    {Profile(Nil, Nil, Nil, Nil)}
    \cup {Profile(Ptr(i), Nil, Nil, Nil) : i \in ProfileIds}
    \cup {Profile(Ptr(i), Ptr("cafe"), Ptr("side"), Ptr(ShallowCurrency(Ptr(1)))) : i \in ProfileIds}

ProfileKeys == {"shop", "cafe"}

ProfileSpecs ==
    {WithLimitAndOffset(1, 0), WithLimitAndOffset(1, 1), WithLimitAndOffset(2, 0)}
    \cup {ByID(i) : i \in ProfileIds} \cup {ByKey(k) : k \in ProfileKeys}

ProfileSpecified(spec, profile, i) ==
    CASE spec.kind = "limitoffset" -> LimitOffsetSpecified(spec, i)
      [] spec.kind = "byid" -> spec.id = Deref(profile.Id)
      [] spec.kind = "bykey" -> spec.key = Deref(profile.Key)

ProfileSpecifiedPanics(spec, profile) ==
    \/ spec.kind = "byid" /\ profile.Id = Nil
    \/ spec.kind = "bykey" /\ profile.Key = Nil

\* a reference that hydration looks up: non-nil and carrying an id
IdBearing(ref) == ref # Nil /\ Deref(ref).Id # Nil

\* a hydration that clears a reference its sub-query finds no match for
RangeAssignOrNil(ref, list) == IF Len(list) = 0 THEN Nil ELSE Ptr(list[Len(list)])

\* "for _, x := range list { ref = x }": every element is assigned in turn,
\* the reference ends as the last one; an empty list leaves it alone
RangeAssign(ref, list) == IF Len(list) = 0 THEN ref ELSE Ptr(list[Len(list)])

\* refreshProfileCurrency / refreshProfileForeigns (profile.go 89-115,
\* 255-281): q[id] is what Query(by id) of the injected currency repository returns
RefreshProfileForeigns(profile, q) ==
    IF ~IdBearing(profile.Currency)
    THEN [err |-> FALSE, profile |-> profile]
    ELSE LET r == q[Deref(Deref(profile.Currency).Id)]
         IN  IF r.err
             THEN [err |-> TRUE, profile |-> profile]
             ELSE [err |-> FALSE,
                   profile |-> [profile EXCEPT !.Currency = RangeAssign(@, r.list)]]

(***************************************************************************)
(* OrderedMapProfileStore (profile.go 68-208); q is the by-id Query of the *)
(* currency repository it hydrates from.                                   *)
(***************************************************************************)
OrderedMapProfileStoreAdd(m, nextId, profile) ==
    LET stored == [profile EXCEPT !.Id = Ptr(nextId)]
    IN  Outcome(OMSet(m, nextId, stored), nextId + 1, stored, Ok("Add"))

OrderedMapProfileStoreDelete(m, nextId, profile, q) ==
    IF profile.Id = Nil
    THEN Outcome(m, nextId, profile, Panicked("Delete"))
    ELSE IF ~OMPresent(m, Deref(profile.Id))
    THEN Outcome(m, nextId, profile, NotFound("Delete"))
    ELSE LET deleted == OMGet(m, Deref(profile.Id))
             filled == [profile EXCEPT !.Key = deleted.Key,
                                       !.Description = deleted.Description,
                                       !.Currency = deleted.Currency]
             h == RefreshProfileForeigns(filled, q)
         IN  Outcome(OMDelete(m, Deref(profile.Id)), nextId, h.profile,
                     IF h.err THEN Failed("Delete") ELSE Ok("Delete"))

\* an Update that puts the stored record back when the hydration fails
OrderedMapProfileStoreUpdateRollingBack(m, nextId, profile, q) ==
    IF profile.Id = Nil
    THEN Outcome(m, nextId, profile, Panicked("Update"))
    ELSE IF ~OMPresent(m, Deref(profile.Id))
    THEN Outcome(m, nextId, profile, NotFound("Update"))
    ELSE LET old == OMGet(m, Deref(profile.Id))
             merged == [old EXCEPT
                          !.Key = MergeField(profile.Key, old.Key),
                          !.Description = MergeField(profile.Description, old.Description),
                          !.Currency = MergeField(profile.Currency, old.Currency)]
             filled == [profile EXCEPT !.Key = merged.Key,
                                       !.Description = merged.Description,
                                       !.Currency = merged.Currency]
             h == RefreshProfileForeigns(filled, q)
         IN  Outcome(IF h.err THEN m ELSE OMSet(m, Deref(merged.Id), merged), nextId, h.profile,
                     IF h.err THEN Failed("Update") ELSE Ok("Update"))

OrderedMapProfileStoreUpdate(m, nextId, profile, q) ==
    IF profile.Id = Nil
    THEN Outcome(m, nextId, profile, Panicked("Update"))
    ELSE IF ~OMPresent(m, Deref(profile.Id))
    THEN Outcome(m, nextId, profile, NotFound("Update"))
    ELSE LET old == OMGet(m, Deref(profile.Id))
             merged == [old EXCEPT
                          !.Key = MergeField(profile.Key, old.Key),
                          !.Description = MergeField(profile.Description, old.Description),
                          !.Currency = MergeField(profile.Currency, old.Currency)]
             filled == [profile EXCEPT !.Key = merged.Key,
                                       !.Description = merged.Description,
                                       !.Currency = merged.Currency]
             h == RefreshProfileForeigns(filled, q)
         IN  Outcome(OMSet(m, Deref(merged.Id), merged), nextId, h.profile,
                     IF h.err THEN Failed("Update") ELSE Ok("Update"))

\* the forward pass of Query from position i on: a matching record is
\* hydrated before it is appended; a hydration error ends the pass and
\* returns the position reached as the count
RECURSIVE ProfileQueryLoop(_, _, _, _)
ProfileQueryLoop(m, spec, i, q) ==
    IF i >= Len(m) THEN [panic |-> FALSE, err |-> FALSE, c |-> i, l |-> <<>>]
    ELSE LET profile == m[i + 1].v
         IN  IF ProfileSpecifiedPanics(spec, profile)
             THEN [panic |-> TRUE, err |-> FALSE, c |-> i, l |-> <<>>]
             ELSE IF ~ProfileSpecified(spec, profile, i)
             THEN ProfileQueryLoop(m, spec, i + 1, q)
             ELSE LET h == RefreshProfileForeigns(profile, q)
                  IN  IF h.err
                      THEN [panic |-> FALSE, err |-> TRUE, c |-> i, l |-> <<>>]
                      ELSE LET rest == ProfileQueryLoop(m, spec, i + 1, q)
                           IN  [rest EXCEPT !.l = <<h.profile>> \o rest.l]

OrderedMapProfileStoreQuery(m, spec, q) ==
    LET r == ProfileQueryLoop(m, spec, 0, q)
    IN  IF r.panic THEN Panicked("Query")
        ELSE IF r.err THEN [Failed("Query") EXCEPT !.total = r.c, !.list = r.l]
        ELSE Queried(OMLen(m), r.l)

(***************************************************************************)
(* PGPoolProfileStore (profile.go 229-435) over table profiles with the    *)
(* nullable column currency_id.                                            *)
(***************************************************************************)
ProfileRow(id, key, description, currencyId) ==
    [Id |-> id, Key |-> key, Description |-> description, CurrencyId |-> currencyId]

\* "if profile.Currency != nil { currencyId = profile.Currency.Id }"
RefId(ref) == IF ref = Nil THEN Nil ELSE Deref(ref).Id

\* "if currencyId != nil { profile.Currency = &Currency{Id: currencyId} }"
ScanRef(ref, idp) == IF idp # Nil THEN Ptr(ShallowCurrency(idp)) ELSE ref

PGPoolProfileStoreAdd(t, seq, profile) ==
    LET row == ProfileRow(Ptr(seq), profile.Key, profile.Description, RefId(profile.Currency))
    IN  Outcome(Append(t, row), seq + 1, [profile EXCEPT !.Id = Ptr(seq)], Ok("Add"))

\* the statement finds no row: Scan leaves its destinations alone and
\* returns pgx.ErrNoRows, the caller's record is hydrated all the same
PGPoolProfileStoreDelete(t, seq, profile, q) ==
    LET i == PGRowIndex(t, profile.Id)
        scanned == IF i = 0 THEN profile
                   ELSE [profile EXCEPT !.Key = t[i].Key,
                                        !.Description = t[i].Description,
                                        !.Currency = ScanRef(@, t[i].CurrencyId)]
        h == RefreshProfileForeigns(scanned, q)
        ret == IF i = 0 THEN NotFound("Delete")
               ELSE IF h.err THEN Failed("Delete") ELSE Ok("Delete")
    IN  Outcome(IF i = 0 THEN t ELSE SelectSeq(t, LAMBDA r : r.Id # profile.Id),
                seq, h.profile, ret)

PGPoolProfileStoreUpdateStatement(t, seq, profile) ==
    LET i == PGRowIndex(t, profile.Id)
        row == IF i = 0 THEN Nil
               ELSE [t[i] EXCEPT
                       !.Key = Coalesce(profile.Key, t[i].Key),
                       !.Description = Coalesce(profile.Description, t[i].Description),
                       !.CurrencyId = Coalesce(RefId(profile.Currency), t[i].CurrencyId)]
        scanned == IF i = 0 THEN [profile EXCEPT !.Currency = ScanRef(@, RefId(@))]
                   ELSE [profile EXCEPT !.Key = row.Key,
                                        !.Description = row.Description,
                                        !.Currency = ScanRef(@, row.CurrencyId)]
    IN  Outcome(IF i = 0 THEN t ELSE [t EXCEPT ![i] = row], seq, scanned,
                IF i = 0 THEN NotFound("Update") ELSE Ok("Update"))

\* the hydration that follows the statement, left out
PGPoolProfileStoreUpdateForeignsSkipped(s, q) == s

\* the hydration that follows the statement: s is the statement's outcome
\* and q what the currency repository answers when it is asked
PGPoolProfileStoreUpdateForeigns(s, q) ==
    LET h == RefreshProfileForeigns(s.rec, q)
    IN  Outcome(s.store, s.next, h.profile,
                IF s.ret.notFound THEN s.ret
                ELSE IF h.err THEN Failed("Update") ELSE Ok("Update"))

PGPoolProfileStoreUpdate(t, seq, profile, q) ==
    PGPoolProfileStoreUpdateForeigns(PGPoolProfileStoreUpdateStatement(t, seq, profile), q)

ProfileSqlRows(rows, spec) ==
    CASE spec.kind = "limitoffset" -> LimitOffsetRows(rows, spec.limit, spec.offset)
      [] spec.kind = "byid" -> SelectSeq(rows, LAMBDA r : r.Id = Ptr(spec.id))
      [] spec.kind = "bykey" -> SelectSeq(rows, LAMBDA r : r.Key = Ptr(spec.key))

\* the rows.Next loop: scan a row, build the shallow reference, hydrate
RECURSIVE ProfileRowsLoop(_, _, _)
ProfileRowsLoop(rows, i, q) ==
    IF i > Len(rows) THEN [err |-> FALSE, l |-> <<>>]
    ELSE LET profile == Profile(rows[i].Id, rows[i].Key, rows[i].Description,
                                ScanRef(Nil, rows[i].CurrencyId))
             h == RefreshProfileForeigns(profile, q)
         IN  IF h.err THEN [err |-> TRUE, l |-> <<>>]
             ELSE LET rest == ProfileRowsLoop(rows, i + 1, q)
                  IN  [rest EXCEPT !.l = <<h.profile>> \o rest.l]

PGPoolProfileStoreQuery(t, spec, order, q) ==
    LET r == ProfileRowsLoop(ProfileSqlRows(Reordered(t, order), spec), 1, q)
    IN  IF r.err THEN [Failed("Query") EXCEPT !.total = Len(t), !.list = r.l]
        ELSE Queried(Len(t), r.l)

(***************************************************************************)
(* The first OrderedMapCurrencyStore of currency.go (lines 53-157).  The    *)
(* Id of its Currency (currency.go 9-15) is an int, and Delete and Update   *)
(* return only an error.                                                   *)
(***************************************************************************)
LegacyIds == 0..MaxAdds

LegacyAddInputs ==
    { Currency(0, Nil, Ptr("euro"), Ptr("EUR"), Nil),
      Currency(MaxAdds, Ptr(840), Ptr("dollar"), Nil, Nil) }

LegacyDeleteInputs == {Currency(i, Nil, Nil, Nil, Ptr(2)) : i \in LegacyIds}

LegacyUpdateInputs == {Currency(i, Ptr(978), Nil, Nil, Nil) : i \in LegacyIds}

LegacySpecs ==
    {WithLimitAndOffset(l, o) : l \in 1..MaxLimit, o \in 0..1} \cup {ByID(i) : i \in 0..1}

LegacyCurrencySpecified(spec, currency, i) ==
    CASE spec.kind = "limitoffset" -> LimitOffsetSpecified(spec, i)
      [] spec.kind = "byid" -> spec.id = currency.Id

\* the loop of Query over an ordered map: the records for which Test holds
\* of the record and its position, counted from 0, oldest first
QueryLoop(m, Test(_, _)) ==
    LET l[i \in 0..Len(m)] ==
            IF i = 0 THEN <<>>
            ELSE IF Test(m[i].v, i - 1) THEN Append(l[i - 1], m[i].v) ELSE l[i - 1]
    IN  l[Len(m)]

LegacyCurrencyStoreAdd(m, nextId, currency) ==
    LET added == [currency EXCEPT !.Id = nextId]
    IN  Outcome(OMSet(m, nextId, added), nextId + 1, added, Ok("Add"))

LegacyCurrencyStoreDelete(m, nextId, currency) ==
    IF ~OMPresent(m, currency.Id)
    THEN Outcome(m, nextId, currency, Failed("Delete"))
    ELSE LET deleted == OMGet(m, currency.Id)
         IN  Outcome(OMDelete(m, currency.Id), nextId,
                     [deleted EXCEPT !.Id = currency.Id], Ok("Delete"))

LegacyCurrencyStoreUpdate(m, nextId, currency) ==
    IF ~OMPresent(m, currency.Id)
    THEN Outcome(m, nextId, currency, Failed("Update"))
    ELSE LET old == OMGet(m, currency.Id)
             merged == [f \in DOMAIN old |->
                          IF f = "Id" THEN old.Id ELSE MergeField(currency[f], old[f])]
         IN  Outcome(OMSet(m, old.Id, merged), nextId,
                     [merged EXCEPT !.Id = currency.Id], Ok("Update"))

LegacyCurrencyStoreQuery(m, spec) ==
    Queried(OMLen(m), QueryLoop(m, LAMBDA c, i : LegacyCurrencySpecified(spec, c, i)))

(***************************************************************************)
(* Card (card.go 24-51).  A PAN is a string, here the sequence of its      *)
(* characters; the expiry date and the holder are opaque values.           *)
(***************************************************************************)
Card(id, token, pan, expDate, holder) ==
    [Id |-> id, Token |-> token, PAN |-> pan, ExpDate |-> expDate, Holder |-> holder]

PANs == { <<"4", "1", "1", "1", "1", "2">>, <<"5", "5", "0", "0", "9">> }

(***************************************************************************)
(* generateToken (card.go 117-128).  make([]byte, size) panics for a       *)
(* negative size; rand.Read fills the bytes or fails; the SHA-256 sum of   *)
(* the bytes is sha256.Size bytes, each of them any byte: the hash         *)
(* function is not computed here, the sum is an input of the operator.     *)
(* hex.EncodeToString writes two characters of hextable for every byte.    *)
(***************************************************************************)
MaxSize == 2

sha256Size == 32

ByteSamples == {0, 15, 160, 255}

RandomBytes(size) == [1..size -> ByteSamples]

Digests == {[i \in 1..sha256Size |-> IF i % 2 = 1 THEN x ELSE y] : x, y \in ByteSamples}

hextable == <<"0", "1", "2", "3", "4", "5", "6", "7", "8", "9", "a", "b", "c", "d", "e", "f">>

\* an encoding that drops the leading zero of a byte below 16
RECURSIVE EncodeToStringShort(_)
EncodeToStringShort(src) ==
    IF src = <<>>
    THEN <<>>
    ELSE (IF Head(src) < 16
          THEN <<hextable[Head(src) + 1]>>
          ELSE <<hextable[(Head(src) \div 16) + 1], hextable[(Head(src) % 16) + 1]>>)
             \o EncodeToStringShort(Tail(src))

RECURSIVE EncodeToString(_)
EncodeToString(src) ==
    IF src = <<>>
    THEN <<>>
    ELSE <<hextable[(Head(src) \div 16) + 1], hextable[(Head(src) % 16) + 1]>>
             \o EncodeToString(Tail(src))

generateToken(size, failed, shaStr) ==
    IF size < 0
    THEN [token |-> Nil, ret |-> Panicked("generateToken")]
    ELSE IF failed
    THEN [token |-> Nil, ret |-> Failed("generateToken")]
    ELSE [token |-> Ptr(EncodeToString(shaStr)), ret |-> Ok("generateToken")]

\* what generateToken(32) (card.go 117-128) returns: the hex form of a
\* SHA-256 sum, an opaque value here
Tokens == {"9f86d0"}

CardIds == 1..(MaxCards + 1)

CardAddInputs == {Card(Nil, Nil, Ptr(pan), Ptr("25/12"), Ptr("holder")) : pan \in PANs}

CardDeleteInputs ==
    {Card(Ptr(i), Ptr("stale"), Nil, Nil, Nil) : i \in CardIds}
        \cup {Card(Nil, Nil, Nil, Nil, Nil)}

ByPAN(pan) == [kind |-> "bypan", pan |-> pan]

CardSpecs ==
    {WithLimitAndOffset(l, o) : l \in 1..MaxLimit, o \in 0..1} \cup {ByPAN(pan) : pan \in PANs}

\* a by-PAN specification that every card satisfies
CardSpecifiedByAnyPAN(spec, card, i) ==
    CASE spec.kind = "limitoffset" -> LimitOffsetSpecified(spec, i)
      [] spec.kind = "bypan" -> TRUE

CardSpecified(spec, card, i) ==
    CASE spec.kind = "limitoffset" -> LimitOffsetSpecified(spec, i)
      [] spec.kind = "bypan" -> spec.pan = Deref(card.PAN)

OrderedMapCardStoreAdd(m, nextId, card, token) ==
    LET added == [card EXCEPT !.Id = Ptr(nextId), !.Token = Ptr(token)]
    IN  Outcome(OMSet(m, nextId, added), nextId + 1, added, Ok("Add"))

\* a Delete that leaves the caller's token as it was passed in
OrderedMapCardStoreDeleteKeepsPassedToken(m, nextId, card) ==
    IF card.Id = Nil
    THEN Outcome(m, nextId, card, Panicked("Delete"))
    ELSE IF ~OMPresent(m, Deref(card.Id))
    THEN Outcome(m, nextId, card, NotFound("Delete"))
    ELSE LET deleted == OMGet(m, Deref(card.Id))
         IN  Outcome(OMDelete(m, Deref(card.Id)), nextId,
                     [deleted EXCEPT !.Id = card.Id, !.Token = card.Token], Ok("Delete"))

\* a Delete that gives the identifier of the deleted card back to the store
OrderedMapCardStoreDeleteReleasingId(m, nextId, card) ==
    IF card.Id = Nil
    THEN Outcome(m, nextId, card, Panicked("Delete"))
    ELSE IF ~OMPresent(m, Deref(card.Id))
    THEN Outcome(m, nextId, card, NotFound("Delete"))
    ELSE LET deleted == OMGet(m, Deref(card.Id))
         IN  Outcome(OMDelete(m, Deref(card.Id)), Deref(card.Id),
                     [deleted EXCEPT !.Id = card.Id], Ok("Delete"))

OrderedMapCardStoreDelete(m, nextId, card) ==
    IF card.Id = Nil
    THEN Outcome(m, nextId, card, Panicked("Delete"))
    ELSE IF ~OMPresent(m, Deref(card.Id))
    THEN Outcome(m, nextId, card, NotFound("Delete"))
    ELSE LET deleted == OMGet(m, Deref(card.Id))
         IN  Outcome(OMDelete(m, Deref(card.Id)), nextId,
                     [deleted EXCEPT !.Id = card.Id], Ok("Delete"))

OrderedMapCardStoreQuery(m, spec) ==
    Queried(OMLen(m), QueryLoop(m, LAMBDA c, i : CardSpecified(spec, c, i)))

(***************************************************************************)
(* Session (card.go 418-434).  Times are seconds on the clock time.Now()   *)
(* reads; the session data is an opaque value.                             *)
(***************************************************************************)
expireSeconds == 300

Session(id, key, data, expireAt) ==
    [Id |-> id, Key |-> key, Data |-> data, ExpireAt |-> expireAt]

hasExpired(session, now) == Deref(session.ExpireAt) < now

SessionIds == 1..(MaxSessions + 1)

SessionKeys == {"k1", "k2"}

\* NewSession(key, data), the second with an expiration of the caller's
SessionAddInputs ==
    { Session(Nil, Ptr("k1"), Ptr("data"), Nil),
      Session(Nil, Ptr("k2"), Ptr("data"), Ptr(0)) }

SessionDeleteInputs == {Session(Ptr(i), Nil, Nil, Nil) : i \in SessionIds}

SessionUpdateInputs ==
    {Session(Ptr(i), Ptr("k2"), Nil, Nil) : i \in SessionIds}
        \cup {Session(Ptr(i), Nil, Nil, Ptr(expireSeconds)) : i \in SessionIds}

SessionSpecs ==
    {WithLimitAndOffset(l, o) : l \in 1..MaxLimit, o \in 0..1}
        \cup {ByID(1)} \cup {ByKey(k) : k \in SessionKeys}

SessionSpecified(spec, session, i) ==
    CASE spec.kind = "limitoffset" -> LimitOffsetSpecified(spec, i)
      [] spec.kind = "byid" -> spec.id = Deref(session.Id)
      [] spec.kind = "bykey" -> spec.key = Deref(session.Key)

\* an Add that keeps an expiration its caller set
OrderedMapSessionStoreAddKeepingExpireAt(m, nextId, session, now) ==
    LET added == [session EXCEPT !.Id = Ptr(nextId),
                                 !.ExpireAt = IF @ # Nil THEN @ ELSE Ptr(now + expireSeconds)]
    IN  Outcome(OMSet(m, nextId, added), nextId + 1, added, Ok("Add"))

OrderedMapSessionStoreAdd(m, nextId, session, now) ==
    LET added == [session EXCEPT !.Id = Ptr(nextId), !.ExpireAt = Ptr(now + expireSeconds)]
    IN  Outcome(OMSet(m, nextId, added), nextId + 1, added, Ok("Add"))

OrderedMapSessionStoreDelete(m, nextId, session) ==
    IF session.Id = Nil
    THEN Outcome(m, nextId, session, Panicked("Delete"))
    ELSE IF ~OMPresent(m, Deref(session.Id))
    THEN Outcome(m, nextId, session, NotFound("Delete"))
    ELSE LET deleted == OMGet(m, Deref(session.Id))
         IN  Outcome(OMDelete(m, Deref(session.Id)), nextId,
                     [deleted EXCEPT !.Id = session.Id], Ok("Delete"))

OrderedMapSessionStoreUpdate(m, nextId, session) ==
    IF session.Id = Nil
    THEN Outcome(m, nextId, session, Panicked("Update"))
    ELSE IF ~OMPresent(m, Deref(session.Id))
    THEN Outcome(m, nextId, session, NotFound("Update"))
    ELSE LET old == OMGet(m, Deref(session.Id))
             merged == [f \in DOMAIN old |->
                          IF f = "Id" THEN old.Id ELSE MergeField(session[f], old[f])]
         IN  Outcome(OMSet(m, Deref(old.Id), merged), nextId,
                     [merged EXCEPT !.Id = session.Id], Ok("Update"))

OrderedMapSessionStoreQuery(m, spec, now) ==
    Queried(OMLen(m),
            QueryLoop(m, LAMBDA session, i :
                             SessionSpecified(spec, session, i) /\ ~hasExpired(session, now)))

(***************************************************************************)
(* The vault HTTP stores (card.go 248-407 and 974-1132).  A JSON object is  *)
(* a function from its keys to its values, null being Nil and any other     *)
(* value v being Ptr(v).  makeRequest returns a transport failure or the    *)
(* status and the JSON body of the response.                                *)
(***************************************************************************)
\* a displayed form that leaves only the last three characters visible
PANStringLastThree(pan) ==
    [i \in 1..Len(pan) |-> IF i <= Len(pan) - 3 THEN "*" ELSE pan[i]]

\* PAN.String (card.go 36-43): all but the last four characters masked
PANString(pan) ==
    LET repeat == Max(Len(pan) - 4, 0)
    IN  [i \in 1..Len(pan) |-> IF i <= repeat THEN "*" ELSE pan[i]]

TransportFailure == [fail |-> TRUE, status |-> 0, json |-> <<>>]

Response(status, json) == [fail |-> FALSE, status |-> status, json |-> json]

NotFoundJson == [error |-> Ptr("not found")]

\* a card as the vault returns it, the PAN masked
CardJson(card) ==
    [id |-> card.Id, token |-> card.Token, pan |-> Ptr(PANString(Deref(card.PAN))),
     exp_date |-> card.ExpDate, holder |-> card.Holder]

SessionJson(session) ==
    [id |-> session.Id, key |-> session.Key, body |-> session.Data,
     expire_at |-> session.ExpireAt]

\* the vault's side of POST /v1/cards, DELETE /v1/cards/{id} and
\* GET /v1/cards?pan=&limit=1 or ?limit=&offset=
VaultCardsPost(v, seq, body, token) ==
    LET card == Card(Ptr(seq), Ptr(token), Ptr(body.pan), Ptr(body.exp_date), Ptr(body.holder))
    IN  [store |-> Append(v, card), next |-> seq + 1, resp |-> Response(200, CardJson(card))]

VaultCardsDelete(v, seq, id) ==
    LET found == {i \in 1..Len(v) : v[i].Id = Ptr(id)}
    IN  IF found = {}
        THEN [store |-> v, next |-> seq, resp |-> Response(404, NotFoundJson)]
        ELSE LET i == CHOOSE i \in found : TRUE
             IN  [store |-> Without(v, i), next |-> seq,
                  resp |-> Response(200, CardJson(v[i]))]

VaultCardsGet(v, query) ==
    LET rows == IF "pan" \in DOMAIN query
                THEN LimitOffsetRows(SelectSeq(v, LAMBDA c : c.PAN = Ptr(query.pan)),
                                     query.limit, 0)
                ELSE LimitOffsetRows(v, query.limit, query.offset)
    IN  Response(200, [data |-> [i \in 1..Len(rows) |-> CardJson(rows[i])]])

\* the vault's side of POST /v1/sessions and GET /v1/sessions/{key}; the
\* vault may or may not still answer with a session that has expired
VaultSessionsPost(v, seq, body, now) ==
    LET session == Session(Ptr(seq), Ptr(body.key), body.body, Ptr(now + expireSeconds))
    IN  [store |-> Append(v, session), next |-> seq + 1,
         resp |-> Response(200, SessionJson(session))]

VaultSessionsGet(v, key, now) ==
    LET found == {i \in 1..Len(v) : v[i].Key = Ptr(key)}
        last == v[CHOOSE i \in found : \A j \in found : j <= i]
    IN  IF found = {} THEN {Response(404, NotFoundJson)}
        ELSE {Response(200, SessionJson(last))}
                 \cup IF hasExpired(last, now) THEN {Response(404, NotFoundJson)} ELSE {}

\* json.Decoder.Decode into a Card / a Session: a key of the object sets its
\* field, a field without key keeps its value
Decoded(old, json, key) == IF key \in DOMAIN json THEN json[key] ELSE old

DecodeCard(card, json) ==
    Card(Decoded(card.Id, json, "id"), Decoded(card.Token, json, "token"),
         Decoded(card.PAN, json, "pan"), Decoded(card.ExpDate, json, "exp_date"),
         Decoded(card.Holder, json, "holder"))

DecodeSession(session, json) ==
    Session(Decoded(session.Id, json, "id"), Decoded(session.Key, json, "key"),
            Decoded(session.Data, json, "body"), Decoded(session.ExpireAt, json, "expire_at"))

\* CardSpecification.ToQwrStr (card.go 93-95, 105-107)
CardToQwrStr(spec) ==
    CASE spec.kind = "limitoffset" -> [limit |-> spec.limit, offset |-> spec.offset]
      [] spec.kind = "bypan" -> [pan |-> spec.pan, limit |-> 1]

\* the body Add posts; Add dereferences PAN, ExpDate and Holder first
CardAddBody(card) ==
    [pan |-> Deref(card.PAN), exp_date |-> Deref(card.ExpDate), holder |-> Deref(card.Holder)]

\* Add does not look at the status of the response
HttpClientCardStoreAdd(card, resp) ==
    IF resp.fail THEN [rec |-> card, ret |-> Failed("Add")]
    ELSE [rec |-> DecodeCard(card, resp.json), ret |-> Ok("Add")]

\* every failure of Delete is returned with notFound = true
HttpClientCardStoreDelete(card, resp) ==
    IF resp.fail \/ resp.status # 200 THEN [rec |-> card, ret |-> NotFound("Delete")]
    ELSE [rec |-> DecodeCard(card, resp.json), ret |-> Ok("Delete")]

\* the count Query returns is its local c, which it never assigns
HttpClientCardStoreQuery(resp) ==
    IF resp.fail \/ "data" \notin DOMAIN resp.json THEN Failed("Query")
    ELSE LET rows == resp.json.data
             none == Card(Nil, Nil, Nil, Nil, Nil)
         IN  Queried(0, [i \in 1..Len(rows) |-> DecodeCard(none, rows[i])])

\* Add dereferences Key
SessionAddBody(session) == [key |-> Deref(session.Key), body |-> session.Data]

HttpClientSessionStoreAdd(session, resp) ==
    IF resp.fail THEN [rec |-> session, ret |-> Failed("Add")]
    ELSE [rec |-> DecodeSession(session, resp.json), ret |-> Ok("Add")]

\* a response without "data" is taken as one session
HttpClientSessionStoreQuery(resp) ==
    LET none == Session(Nil, Nil, Nil, Nil)
    IN  IF resp.fail THEN Failed("Query")
        ELSE IF "data" \in DOMAIN resp.json
        THEN Queried(0, [i \in 1..Len(resp.json.data) |->
                            DecodeSession(none, resp.json.data[i])])
        ELSE Queried(0, <<DecodeSession(none, resp.json)>>)

(***************************************************************************)
(* Route and the PGPoolRouteStore of route.go 12-322, which holds a pool    *)
(* and a logger and no repository of the entities a route refers to.  Of    *)
(* an Instrument, an Account and a Router only the Id is modelled.          *)
(***************************************************************************)
Route(id, profile, instrument, account, router, settings) ==
    [Id |-> id, Profile |-> profile, Instrument |-> instrument, Account |-> account,
     Router |-> router, Settings |-> settings]

ShallowProfile(idp) == Ptr(Profile(idp, Nil, Nil, Nil))

Shallow(idp) == Ptr([Id |-> idp])

RouteIds == 1..(MaxRoutes + 1)

RouteAddInputs ==
    { Route(Nil, ShallowProfile(Ptr(1)), Nil, Nil, Nil, Nil),
      Route(Nil, Nil, Shallow(Ptr(1)), Shallow(Ptr(2)), Shallow(Nil), Ptr("settings")) }

RouteUpdateInputs ==
    {Route(Ptr(i), Nil, Nil, Nil, Shallow(Ptr(1)), Nil) : i \in RouteIds}
        \cup {Route(Ptr(i), ShallowProfile(Ptr(1)), Nil, Nil, Nil, Nil) : i \in RouteIds}

RouteDeleteInputs == {Route(Ptr(i), ShallowProfile(Ptr(2)), Nil, Nil, Nil, Nil) : i \in RouteIds}

RouteSpecs == {WithLimitAndOffset(MaxLimit, 0)} \cup {ByID(i) : i \in 1..MaxRoutes}

RouteRow(idp, route) ==
    [Id |-> idp, ProfileId |-> RefId(route.Profile), InstrumentId |-> RefId(route.Instrument),
     AccountId |-> RefId(route.Account), RouterId |-> RefId(route.Router),
     Settings |-> route.Settings]

\* the caller's route after the scan of a returned row: a reference is set
\* from a column that is not NULL and kept otherwise
ScanRoute(route, row) ==
    [route EXCEPT
       !.Profile = IF row.ProfileId # Nil THEN ShallowProfile(row.ProfileId) ELSE @,
       !.Instrument = IF row.InstrumentId # Nil THEN Shallow(row.InstrumentId) ELSE @,
       !.Account = IF row.AccountId # Nil THEN Shallow(row.AccountId) ELSE @,
       !.Router = IF row.RouterId # Nil THEN Shallow(row.RouterId) ELSE @,
       !.Settings = row.Settings]

PGPoolRouteStoreAdd(t, seq, route) ==
    Outcome(Append(t, RouteRow(Ptr(seq), route)), seq + 1,
            [route EXCEPT !.Id = Ptr(seq)], Ok("Add"))

PGPoolRouteStoreQuery(t, spec, order) ==
    LET rows == CASE spec.kind = "limitoffset" ->
                       LimitOffsetRows(Reordered(t, order), spec.limit, spec.offset)
                  [] spec.kind = "byid" ->
                       SelectSeq(Reordered(t, order), LAMBDA r : r.Id = Ptr(spec.id))
        none == Route(Nil, Nil, Nil, Nil, Nil, Nil)
    IN  Queried(Len(t), [i \in 1..Len(rows) |->
                            ScanRoute([none EXCEPT !.Id = rows[i].Id], rows[i])])

PGPoolRouteStoreDelete(t, seq, route) ==
    LET i == PGRowIndex(t, route.Id)
    IN  IF i = 0
        THEN Outcome(t, seq, route, NotFound("Delete"))
        ELSE Outcome(Without(t, i), seq, ScanRoute(route, t[i]), Ok("Delete"))

PGPoolRouteStoreUpdate(t, seq, route) ==
    LET i == PGRowIndex(t, route.Id)
        new == RouteRow(route.Id, route)
        row == [f \in DOMAIN new |-> IF f = "Id" THEN t[i].Id ELSE Coalesce(new[f], t[i][f])]
    IN  IF i = 0
        THEN Outcome(t, seq, route, NotFound("Update"))
        ELSE Outcome([t EXCEPT ![i] = row], seq, ScanRoute(route, row), Ok("Update"))

(***************************************************************************)
(* The PGPoolRouteStore of card.go 1212-1579, which holds the repositories *)
(* of the four entities a route refers to and hydrates the references      *)
(* after the same statements.  answers[f] is what the by-id Query of the   *)
(* repository of reference f does: it fails, finds nothing, or finds the   *)
(* one record.                                                             *)
(***************************************************************************)
RouteForeigns == <<"Profile", "Instrument", "Account", "Router">>

Loaded(f, ref) ==
    IF f = "Profile" THEN Profile(Deref(ref).Id, Ptr("shop"), Ptr("main"), Nil)
    ELSE [Id |-> Deref(ref).Id, Key |-> Ptr("loaded")]

SubQuery(f, ref, answer) ==
    CASE answer = "fails" -> Failed("Query")
      [] answer = "none" -> Queried(0, <<>>)
      [] answer = "one" -> Queried(1, <<Loaded(f, ref)>>)

\* refreshRouteProfile, refreshRouteInstrument, refreshRouteAccount and
\* refreshRouteRouter in turn, from the k-th on; the first error returns
RECURSIVE RefreshRouteFrom(_, _, _)
RefreshRouteFrom(route, answers, k) ==
    IF k > Len(RouteForeigns) THEN [err |-> FALSE, route |-> route]
    ELSE LET f == RouteForeigns[k]
         IN  IF ~IdBearing(route[f]) THEN RefreshRouteFrom(route, answers, k + 1)
             ELSE LET r == SubQuery(f, route[f], answers[f])
                  IN  IF r.err THEN [err |-> TRUE, route |-> route]
                      ELSE RefreshRouteFrom([route EXCEPT ![f] = RangeAssign(@, r.list)],
                                            answers, k + 1)

refreshRouteForeigns(route, answers) == RefreshRouteFrom(route, answers, 1)

\* the end of Update and Delete: the error of the hydration goes in front
\* of the one of the statement, the flag is the one of the statement
HydratedOutcome(o, answers) ==
    LET h == refreshRouteForeigns(o.rec, answers)
    IN  Outcome(o.store, o.next, h.route,
                IF h.err THEN [Failed(o.ret.op) EXCEPT !.notFound = o.ret.notFound]
                ELSE o.ret)

PGPoolRouteStoreUpdateHydrating(t, seq, route, answers) ==
    HydratedOutcome(PGPoolRouteStoreUpdate(t, seq, route), answers)

PGPoolRouteStoreDeleteHydrating(t, seq, route, answers) ==
    HydratedOutcome(PGPoolRouteStoreDelete(t, seq, route), answers)

(***************************************************************************)
(* The error a relational operation returns, as a value: an error is the   *)
(* sequence of the contexts fmt.Errorf("...: %v", err) put in front of     *)
(* the failure of the driver, outermost first.                             *)
(***************************************************************************)
Errorf(context, cause) == <<context>> \o cause

ErrNoRows == <<"no rows in result set">>

\* what QueryRow(...).Scan(...) of the primary statement fails with
StorageErrors ==
    {ErrNoRows, <<"conn closed">>, <<"timeout">>, <<"closed pool">>,
     <<"violates foreign key constraint">>}

\* what refreshRouteForeigns returns: the error of the first Query of a
\* referenced repository that fails (card.go 1337-1355)
HydrationErrors ==
    {Errorf(stage, <<"conn closed">>) :
        stage \in {"failed to acquire connection from the pool", "failed to get profiles cnt",
                    "failed to query profiles rows", "failed to get profile row"}}

ForeignsContexts ==
    {"Can not update route foreigns", "Can not update profile foreigns",
     "Can not update transaction foreigns"}

\* "return err, err == pgx.ErrNoRows" (currency.go 411)
PGPoolCurrencyStoreDeleteReturn(err) ==
    [error |-> err, notFound |-> err = Ptr(ErrNoRows)]

\* the end of an Update or Delete that hydrates (card.go 1575-1579)
PGPoolRouteStoreUpdateReturn(context, err, e) ==
    IF e # Nil
    THEN [error |-> Ptr(Errorf(context, Deref(e))), notFound |-> err = Ptr(ErrNoRows)]
    ELSE [error |-> err, notFound |-> err = Ptr(ErrNoRows)]

\* the steps of PGPoolCurrencyStore.Query that can fail, in order, each
\* with the context it is returned under (currency.go 418-463)
QueryStages ==
    <<"failed to acquire connection from the pool", "failed to get currencies cnt",
      "failed to query currencies rows", "failed to get currency row",
      "failed to iterating over rows of currencies">>

PGPoolCurrencyStoreQueryReturn(stage, err) ==
    [error |-> IF stage = 0 THEN Nil ELSE Ptr(Errorf(QueryStages[stage], Deref(err))),
     notFound |-> FALSE]

(***************************************************************************)
(* The SQL clauses of the specifications that hold a string (profile.go    *)
(* 64-66, router.go 53-55, route.go 503-505): fmt.Sprintf puts the string  *)
(* between two quotes as it is.  A string is the sequence of its           *)
(* characters.                                                             *)
(***************************************************************************)
MaxKeyLen == 3

KeyChars == {"k", "'", " "}

KeyValues == UNION {[1..n -> KeyChars] : n \in 0..MaxKeyLen}

\* %d of a number that is not negative
RECURSIVE FormatInt(_)
FormatInt(n) ==
    LET digits == <<"0", "1", "2", "3", "4", "5", "6", "7", "8", "9">>
    IN  IF n < 10 THEN <<digits[n + 1]>> ELSE FormatInt(n \div 10) \o <<digits[(n % 10) + 1]>>

ProfileSpecificationByKeyToSqlClauses(key) ==
    <<"w", "h", "e", "r", "e", " ", "k", "e", "y", "=", "'">> \o key \o <<"'">>

RouterSpecificationByKeyToSqlClauses(key) ==
    <<"w", "h", "e", "r", "e", " ", "k", "e", "y", "=", "'">> \o key \o <<"'">>

TransactionSpecificationByReferenceIdAndStatusToSqlClauses(id, status) ==
    <<"w", "h", "e", "r", "e", " ", "r", "e", "f", "e", "r", "e", "n", "c", "e", "_", "i", "d", "=">> \o FormatInt(id)
        \o <<" ", "a", "n", "d", " ", "s", "t", "a", "t", "u", "s", "=", "'">> \o status \o <<"'">>

(***************************************************************************)
(* What the vault HTTP card store hands to its logger (card.go 254-299).   *)
(* A string is the sequence of its characters.                             *)
(***************************************************************************)
MaxPanLen == 6

PanChars == {"4", "1"}

\* the PAN values of up to MaxPanLen characters
PanValues == UNION {[1..n -> PanChars] : n \in 0..MaxPanLen}

\* the six mask characters of the replacement "pan=******$1"
LogMask == <<"*", "*", "*", "*", "*", "*">>

HasPrefixAt(data, i, prefix) ==
    /\ i + Len(prefix) - 1 <= Len(data)
    /\ SubSeq(data, i, i + Len(prefix) - 1) = prefix

\* the length of the longest run of characters other than stop from position i
RECURSIVE RunLength(_, _, _)
RunLength(data, i, stop) ==
    IF i > Len(data) \/ data[i] = stop THEN 0 ELSE 1 + RunLength(data, i + 1, stop)

\* regexp prefix[^stop]+([^stop]{4})closing matched at position i: the
\* greedy run takes every character up to the next stop character
MatchesAt(data, i, prefix, stop, closing) ==
    /\ HasPrefixAt(data, i, prefix)
    /\ RunLength(data, i + Len(prefix), stop) >= 5
    /\ HasPrefixAt(data, i + Len(prefix) + RunLength(data, i + Len(prefix), stop), closing)

\* Regexp.ReplaceAllString from position i on: the leftmost matches, none
\* overlapping, each replaced by prefix******$1closing
RECURSIVE ReplaceAllString(_, _, _, _, _)
ReplaceAllString(data, i, prefix, stop, closing) ==
    IF i > Len(data) THEN <<>>
    ELSE IF MatchesAt(data, i, prefix, stop, closing)
    THEN LET last == i + Len(prefix) + RunLength(data, i + Len(prefix), stop) - 1
         IN  prefix \o LogMask \o SubSeq(data, last - 3, last) \o closing
                 \o ReplaceAllString(data, last + Len(closing) + 1, prefix, stop, closing)
    ELSE <<data[i]>> \o ReplaceAllString(data, i + 1, prefix, stop, closing)

\* pan=  and  "pan":"
PanParam == <<"p", "a", "n", "=">>
PanMember == <<"\"", "p", "a", "n", "\"", ":", "\"">>

\* a maskParams that knows the form of a query string only
maskParamsOfQueryOnly(data) == ReplaceAllString(data, 1, PanParam, "&", <<>>)

maskParams(data) ==
    ReplaceAllString(ReplaceAllString(data, 1, PanParam, "&", <<>>),
                     1, PanMember, "\"", <<"\"">>)

\* the uri of Query by PAN: "v1/cards" and ToQwrStr of the specification
CardQueryUri(value) ==
    <<"v", "1", "/", "c", "a", "r", "d", "s", "?">> \o PanParam \o value
        \o <<"&", "l", "i", "m", "i", "t", "=", "1">>

\* json.Marshal of the parameters of Add, a map whose keys come out sorted,
\* and likewise a card in the body of a response
CardAddData(value) ==
    <<"{", "\"", "e", "x", "p", "_", "d", "a", "t", "e", "\"", ":", "\"", "2", "5", "/",
      "1", "2", "\"", ",", "\"", "h", "o", "l", "d", "e", "r", "\"", ":", "\"", "h", "\"", ",">>
        \o PanMember \o value \o <<"\"", "}">>

\* makeRequest: the strings it logs, in order; the body of the response is
\* logged when the request was answered
makeRequest(uri, data, body, answered) ==
    [logged |-> <<maskParams(uri), maskParams(data)>>
                    \o IF answered THEN <<maskParams(body)>> ELSE <<>>,
     ret |-> IF answered THEN Ok("makeRequest") ELSE Failed("makeRequest")]

(***************************************************************************)
(* State.  The in-memory and the relational store of an entity are driven  *)
(* by the same calls: callee names the repository called, arg is the       *)
(* caller's record (or the specification) on                               *)
(* entry, rec / ret the caller's record and the returned values of the     *)
(* in-memory store, recPg / retPg those of the relational store.           *)
(***************************************************************************)
MaxConns == 2

Procs == 1..MaxProcs

\* a goroutine that is in no call
NoFrame == [op |-> "none", pc |-> "idle"]

VARIABLES
    currencies, currencyNextId,      \* OrderedMapCurrencyStore
    pgCurrencies, pgCurrencySeq,     \* table currencies and its id sequence
    profiles, profileNextId,         \* OrderedMapProfileStore
    pgProfiles, pgProfileSeq,        \* table profiles and its id sequence
    legacyCurrencies, legacyNextId,  \* OrderedMapCurrencyStore of currency.go 53-157
    assigned,                        \* the identifiers its Add calls assigned, in order
    cards, cardNextId,               \* OrderedMapCardStore
    sessions, sessionNextId,         \* OrderedMapSessionStore
    now,                             \* the clock time.Now() reads
    vaultCards, vaultCardSeq,        \* the cards the vault holds and its next card id
    vaultSessions, vaultSessionSeq,  \* the sessions the vault holds and its next id
    pgRoutes, pgRouteSeq,            \* table routes and its id sequence
    poolFree, frames,                \* pgxpool.Pool: free connections; running Query calls
    mutex, profileMutex, callers,    \* sync.Mutex of the currency and profile stores; callers
    pgRouters,                       \* table routers
    pgTransactions, pgTransactionSeq,\* table transactions and its id sequence
    callee, arg, rec, ret, recPg, retPg

currencyVars == <<currencies, currencyNextId, pgCurrencies, pgCurrencySeq>>
profileVars == <<profiles, profileNextId, pgProfiles, pgProfileSeq>>
legacyVars == <<legacyCurrencies, legacyNextId, assigned>>
callVars == <<callee, arg, rec, ret, recPg, retPg>>

memoryVars == <<cards, cardNextId, sessions, sessionNextId>>
vaultVars == <<vaultCards, vaultCardSeq, vaultSessions, vaultSessionSeq>>
routeVars == <<pgRoutes, pgRouteSeq>>
tableVars == <<pgRouters, pgTransactions, pgTransactionSeq>>
runVars == <<poolFree, frames, mutex, profileMutex, callers, tableVars>>

\* the stores Spec leaves alone
otherVars == <<legacyVars, memoryVars, now, vaultVars, routeVars, runVars>>

vars == <<currencyVars, profileVars, otherVars, callVars>>

\* NewOrderedMapCurrencyStore / NewOrderedMapProfileStore over an empty map
\* and empty tables whose id sequences start at 1
InitStores ==
    /\ currencies = <<>> /\ currencyNextId = 1
    /\ pgCurrencies = <<>> /\ pgCurrencySeq = 1
    /\ profiles = <<>> /\ profileNextId = 1
    /\ pgProfiles = <<>> /\ pgProfileSeq = 1
    /\ legacyCurrencies = <<>> /\ legacyNextId = 0 /\ assigned = <<>>
    /\ cards = <<>> /\ cardNextId = 1
    /\ sessions = <<>> /\ sessionNextId = 1
    /\ now = 0
    /\ vaultCards = <<>> /\ vaultCardSeq = 1
    /\ vaultSessions = <<>> /\ vaultSessionSeq = 1
    /\ pgRoutes = <<>> /\ pgRouteSeq = 1
    /\ poolFree = MaxConns /\ frames = <<>>
    /\ mutex = 0 /\ profileMutex = 0 /\ callers = [p \in Procs |-> NoFrame]
    /\ pgRouters = <<>>
    /\ pgTransactions = <<>> /\ pgTransactionSeq = 1

InitCalls ==
    /\ callee = "none"
    /\ arg = Nil /\ rec = Nil /\ recPg = Nil
    /\ ret = NoCall /\ retPg = NoCall

Init == InitStores /\ InitCalls

\* the by-id Query of the two currency repositories, as the profile stores
\* call it during hydration
CurrencyByID == [i \in RefIds |-> OrderedMapCurrencyStoreQuery(currencies, ByID(i))]

PGCurrencyByID ==
    [i \in RefIds |-> PGPoolCurrencyStoreQuery(pgCurrencies, ByID(i),
                                            [j \in 1..Len(pgCurrencies) |-> j])]

\* a call is made by a caller that holds no result of an earlier call
Idle == ret.op = "none"

\* the caller drops the record and the values a call returned
Return ==
    /\ ~Idle
    /\ callee' = "none"
    /\ arg' = Nil /\ rec' = Nil /\ recPg' = Nil
    /\ ret' = NoCall /\ retPg' = NoCall
    /\ UNCHANGED <<currencyVars, profileVars, otherVars>>

CurrencyCall(input, a, b) ==
    /\ Idle
    /\ callee' = "currency"
    /\ arg' = input
    /\ currencies' = a.store /\ currencyNextId' = a.next
    /\ rec' = a.rec /\ ret' = a.ret
    /\ pgCurrencies' = b.store /\ pgCurrencySeq' = b.next
    /\ recPg' = b.rec /\ retPg' = b.ret
    /\ UNCHANGED <<profileVars, otherVars>>

CurrencyAdd(c) ==
    /\ currencyNextId <= MaxRefs
    /\ CurrencyCall(c, OrderedMapCurrencyStoreAdd(currencies, currencyNextId, c),
                       PGPoolCurrencyStoreAdd(pgCurrencies, pgCurrencySeq, c))

CurrencyDelete(c) ==
    CurrencyCall(c, OrderedMapCurrencyStoreDelete(currencies, currencyNextId, c),
                    PGPoolCurrencyStoreDelete(pgCurrencies, pgCurrencySeq, c))

CurrencyUpdate(c) ==
    CurrencyCall(c, OrderedMapCurrencyStoreUpdate(currencies, currencyNextId, c),
                    PGPoolCurrencyStoreUpdate(pgCurrencies, pgCurrencySeq, c))

CurrencyQuery(spec) ==
    /\ Idle
    /\ callee' = "currency"
    /\ arg' = spec
    /\ rec' = Nil /\ recPg' = Nil
    /\ ret' = OrderedMapCurrencyStoreQuery(currencies, spec)
    /\ retPg' \in {PGPoolCurrencyStoreQuery(pgCurrencies, spec, order) :
                       order \in RowOrders(pgCurrencies)}
    /\ UNCHANGED <<currencyVars, profileVars, otherVars>>

ProfileCall(input, a, b) ==
    /\ Idle
    /\ callee' = "profile"
    /\ arg' = input
    /\ profiles' = a.store /\ profileNextId' = a.next
    /\ rec' = a.rec /\ ret' = a.ret
    /\ pgProfiles' = b.store /\ pgProfileSeq' = b.next
    /\ recPg' = b.rec /\ retPg' = b.ret
    /\ UNCHANGED <<currencyVars, otherVars>>

ProfileAdd(p) ==
    /\ profileNextId <= MaxProfiles
    /\ ProfileCall(p, OrderedMapProfileStoreAdd(profiles, profileNextId, p),
                      PGPoolProfileStoreAdd(pgProfiles, pgProfileSeq, p))

\* a Delete that takes the currency the deleted profile refers to with it
ProfileDeleteCascading(p) ==
    LET a == OrderedMapProfileStoreDelete(profiles, profileNextId, p, CurrencyByID)
        b == PGPoolProfileStoreDelete(pgProfiles, pgProfileSeq, p, PGCurrencyByID)
    IN  /\ Idle
        /\ callee' = "profile"
        /\ arg' = p
        /\ profiles' = a.store /\ profileNextId' = a.next
        /\ rec' = a.rec /\ ret' = a.ret
        /\ pgProfiles' = b.store /\ pgProfileSeq' = b.next
        /\ recPg' = b.rec /\ retPg' = b.ret
        /\ currencies' = IF IdBearing(a.rec.Currency)
                         THEN OMDelete(currencies, Deref(Deref(a.rec.Currency).Id))
                         ELSE currencies
        /\ pgCurrencies' = IF IdBearing(b.rec.Currency)
                           THEN SelectSeq(pgCurrencies,
                                          LAMBDA r : r.Id # Deref(b.rec.Currency).Id)
                           ELSE pgCurrencies
        /\ UNCHANGED <<currencyNextId, pgCurrencySeq, otherVars>>

ProfileDelete(p) ==
    ProfileCall(p, OrderedMapProfileStoreDelete(profiles, profileNextId, p, CurrencyByID),
                   PGPoolProfileStoreDelete(pgProfiles, pgProfileSeq, p, PGCurrencyByID))

ProfileUpdate(p) ==
    ProfileCall(p, OrderedMapProfileStoreUpdate(profiles, profileNextId, p, CurrencyByID),
                   PGPoolProfileStoreUpdate(pgProfiles, pgProfileSeq, p, PGCurrencyByID))

ProfileQuery(spec) ==
    /\ Idle
    /\ callee' = "profile"
    /\ arg' = spec
    /\ rec' = Nil /\ recPg' = Nil
    /\ ret' = OrderedMapProfileStoreQuery(profiles, spec, CurrencyByID)
    /\ retPg' \in {PGPoolProfileStoreQuery(pgProfiles, spec, order, PGCurrencyByID) :
                       order \in RowOrders(pgProfiles)}
    /\ UNCHANGED <<currencyVars, profileVars, otherVars>>

\* the profile repositories together with the currency repositories they
\* hydrate from
Next ==
    \/ \E c \in CurrencyAddInputs : CurrencyAdd(c)
    \/ \E c \in CurrencyDeleteInputs : CurrencyDelete(c)
    \/ \E c \in CurrencyUpdateInputs : CurrencyUpdate(c)
    \/ \E spec \in CurrencySpecs : CurrencyQuery(spec)
    \/ \E p \in ProfileAddInputs : ProfileAdd(p)
    \/ \E p \in ProfileDeleteInputs : ProfileDelete(p)
    \/ \E p \in ProfileUpdateInputs : ProfileUpdate(p)
    \/ \E spec \in ProfileSpecs : ProfileQuery(spec)
    \/ Return

Spec == Init /\ [][Next]_vars

(***************************************************************************)
(* PGPoolRouterStore.Add (router.go 83-92) and PGPoolTransactionStore.Add  *)
(* (route.go 534-615).  The router statement inserts the id its caller     *)
(* passed and returns nothing; the id column is a key of the table, it     *)
(* takes no NULL and no value twice.  The transaction statement returns    *)
(* the id the sequence gave the row and the time the server created it.    *)
(***************************************************************************)
MaxRouters == 2
MaxTransactions == 2

Router(id, key) == [Id |-> id, Key |-> key]

RouterAddInputs == {Router(idp, Ptr("visa")) : idp \in {Nil, Ptr(1), Ptr(7)}}

Transaction(id, created, status, reference) ==
    [Id |-> id, Created |-> created, Status |-> status, Reference |-> reference]

ShallowTransaction(idp) == Transaction(idp, Nil, Nil, Nil)

TransactionAddInputs ==
    { Transaction(Nil, Nil, Ptr("new"), Nil),
      Transaction(Ptr(7), Ptr(1), Ptr("new"), Nil),
      Transaction(Nil, Nil, Ptr("new"), Ptr(ShallowTransaction(Ptr(1)))) }

PGPoolRouterStoreAdd(t, router) ==
    IF router.Id = Nil \/ PGRowIndex(t, router.Id) # 0
    THEN Outcome(t, 0, router, Failed("Add"))
    ELSE Outcome(Append(t, router), 0, router, Ok("Add"))

PGPoolTransactionStoreAdd(t, seq, transaction, created) ==
    LET row == [Id |-> Ptr(seq), Created |-> Ptr(created), Status |-> transaction.Status,
                ReferenceId |-> RefId(transaction.Reference)]
    IN  Outcome(Append(t, row), seq + 1,
                [transaction EXCEPT !.Id = Ptr(seq), !.Created = Ptr(created)], Ok("Add"))

(***************************************************************************)
(* Several profiles over one currency repository: the profile stores hold  *)
(* up to MaxParents profiles, which may refer to the same currency.        *)
(***************************************************************************)
MaxParents == 2

ParentIds == 1..(MaxParents + 1)

\* profiles that refer to currency 1, to currency 2 and to none
ParentBodies ==
    { Profile(Nil, Ptr("shop"), Ptr("main"), Ptr(ShallowCurrency(Ptr(1)))),
      Profile(Nil, Nil, Nil, Ptr(ShallowCurrency(Ptr(2)))),
      Profile(Nil, Ptr("cafe"), Nil, Nil) }

ParentAdd(p) ==
    /\ profileNextId <= MaxParents
    /\ ProfileCall(p, OrderedMapProfileStoreAdd(profiles, profileNextId, p),
                      PGPoolProfileStoreAdd(pgProfiles, pgProfileSeq, p))

NextParents ==
    \/ \E c \in CurrencyAddInputs : CurrencyAdd(c)
    \/ \E p \in ParentBodies : ParentAdd(p)
    \/ \E i \in ParentIds : ProfileDelete(Profile(Ptr(i), Nil, Nil, Nil))
    \/ \E i \in ParentIds, b \in ParentBodies : ProfileUpdate([b EXCEPT !.Id = Ptr(i)])
    \/ \E i \in ParentIds : ProfileQuery(ByID(i))
    \/ Return

SpecParents == Init /\ [][NextParents]_vars

(***************************************************************************)
(* The in-memory currency store as NewOrderedMapCurrencyStore() of          *)
(* currency.go 147-157 constructs it.                                      *)
(***************************************************************************)
\* a call on one store: only rec / ret carry results
Call(entity, input, r, result) ==
    /\ Idle
    /\ callee' = entity
    /\ arg' = input
    /\ rec' = r /\ ret' = result
    /\ recPg' = Nil /\ retPg' = NoCall

LegacyCall(input, a) ==
    /\ Call("legacycurrency", input, a.rec, a.ret)
    /\ legacyCurrencies' = a.store /\ legacyNextId' = a.next
    /\ UNCHANGED <<currencyVars, profileVars, memoryVars, now, runVars, vaultVars, routeVars>>

LegacyAdd(c) ==
    /\ Len(assigned) < MaxAdds
    /\ LegacyCall(c, LegacyCurrencyStoreAdd(legacyCurrencies, legacyNextId, c))
    /\ assigned' = Append(assigned, legacyNextId)

LegacyDelete(c) ==
    /\ LegacyCall(c, LegacyCurrencyStoreDelete(legacyCurrencies, legacyNextId, c))
    /\ UNCHANGED assigned

LegacyUpdate(c) ==
    /\ LegacyCall(c, LegacyCurrencyStoreUpdate(legacyCurrencies, legacyNextId, c))
    /\ UNCHANGED assigned

LegacyQuery(spec) ==
    /\ Call("legacycurrency", spec, Nil, LegacyCurrencyStoreQuery(legacyCurrencies, spec))
    /\ UNCHANGED <<currencyVars, profileVars, legacyVars, memoryVars, now, runVars, vaultVars, routeVars>>

NextLegacy ==
    \/ \E c \in LegacyAddInputs : LegacyAdd(c)
    \/ \E c \in LegacyDeleteInputs : LegacyDelete(c)
    \/ \E c \in LegacyUpdateInputs : LegacyUpdate(c)
    \/ \E spec \in LegacySpecs : LegacyQuery(spec)
    \/ Return

SpecLegacy == Init /\ [][NextLegacy]_vars

(***************************************************************************)
(* The in-memory card store and the in-memory session store, and the clock *)
(* the session store reads.                                                *)
(***************************************************************************)
CardCall(input, a) ==
    /\ Call("card", input, a.rec, a.ret)
    /\ cards' = a.store /\ cardNextId' = a.next
    /\ UNCHANGED <<currencyVars, profileVars, legacyVars, sessions, sessionNextId, now, runVars,
                   vaultVars, routeVars>>

CardAdd(c) ==
    /\ cardNextId <= MaxCards
    /\ \E token \in Tokens : CardCall(c, OrderedMapCardStoreAdd(cards, cardNextId, c, token))

CardDelete(c) == CardCall(c, OrderedMapCardStoreDelete(cards, cardNextId, c))

CardQuery(spec) ==
    /\ Call("card", spec, Nil, OrderedMapCardStoreQuery(cards, spec))
    /\ UNCHANGED <<currencyVars, profileVars, legacyVars, memoryVars, now, runVars, vaultVars, routeVars>>

SessionCall(input, a) ==
    /\ Call("session", input, a.rec, a.ret)
    /\ sessions' = a.store /\ sessionNextId' = a.next
    /\ UNCHANGED <<currencyVars, profileVars, legacyVars, cards, cardNextId, now, runVars,
                   vaultVars, routeVars>>

SessionAdd(session) ==
    /\ sessionNextId <= MaxSessions
    /\ SessionCall(session, OrderedMapSessionStoreAdd(sessions, sessionNextId, session, now))

SessionDelete(session) ==
    SessionCall(session, OrderedMapSessionStoreDelete(sessions, sessionNextId, session))

SessionUpdate(session) ==
    SessionCall(session, OrderedMapSessionStoreUpdate(sessions, sessionNextId, session))

\* a Query that removes the expired sessions it comes across
SessionQueryPurging(spec) ==
    /\ Call("session", spec, Nil, OrderedMapSessionStoreQuery(sessions, spec, now))
    /\ sessions' = SelectSeq(sessions, LAMBDA e : ~hasExpired(e.v, now))
    /\ UNCHANGED <<currencyVars, profileVars, legacyVars, cards, cardNextId, sessionNextId,
                   now, runVars, vaultVars, routeVars>>

SessionQuery(spec) ==
    /\ Call("session", spec, Nil, OrderedMapSessionStoreQuery(sessions, spec, now))
    /\ UNCHANGED <<currencyVars, profileVars, legacyVars, memoryVars, now, runVars, vaultVars, routeVars>>

\* time passes between two calls: the expiry period, or one second more
Tick(d) ==
    /\ Idle
    /\ now < MaxTime * expireSeconds
    /\ now' = now + d
    /\ UNCHANGED <<currencyVars, profileVars, legacyVars, memoryVars, vaultVars, routeVars,
                   runVars, callVars>>

NextMemory ==
    \/ \E c \in CardAddInputs : CardAdd(c)
    \/ \E c \in CardDeleteInputs : CardDelete(c)
    \/ \E spec \in CardSpecs : CardQuery(spec)
    \/ \E session \in SessionAddInputs : SessionAdd(session)
    \/ \E session \in SessionDeleteInputs : SessionDelete(session)
    \/ \E session \in SessionUpdateInputs : SessionUpdate(session)
    \/ \E spec \in SessionSpecs : SessionQuery(spec)
    \/ \E d \in {expireSeconds, expireSeconds + 1} : Tick(d)
    \/ Return

SpecMemory == Init /\ [][NextMemory]_vars

(***************************************************************************)
(* The in-memory card store alone, with tokens that tell the calls of Add  *)
(* apart: generateToken (card.go 117-128) hashes fresh random bytes at     *)
(* every call.                                                             *)
(***************************************************************************)
GeneratedTokens == Tokens \cup {"2c26b4"}

\* the sixteen digits of a card number, as the caller of Add passes them
ExamplePAN ==
    <<"4", "1", "1", "1", "1", "1", "1", "1", "1", "1", "1", "1", "1", "1", "1", "1">>

ExampleCard == Card(Nil, Nil, Ptr(ExamplePAN), Ptr("27/05"), Ptr("A B"))

CardAddGenerated(c) ==
    /\ cardNextId <= MaxCards
    /\ \E token \in GeneratedTokens :
           CardCall(c, OrderedMapCardStoreAdd(cards, cardNextId, c, token))

NextCard ==
    \/ \E c \in CardAddInputs \cup {ExampleCard} : CardAddGenerated(c)
    \/ \E c \in CardDeleteInputs : CardDelete(c)
    \/ \E spec \in CardSpecs \cup {ByPAN(ExamplePAN)} : CardQuery(spec)
    \/ Return

SpecCard == Init /\ [][NextCard]_vars

(***************************************************************************)
(* generateToken called with any size, over the bytes rand.Read wrote and  *)
(* the sum the hash returned for them.                                     *)
(***************************************************************************)
GenerateToken(size, b, failed, shaStr) ==
    LET g == generateToken(size, failed, shaStr)
    IN  /\ Call("token", [size |-> size, b |-> b], g.token, g.ret)
        /\ UNCHANGED <<currencyVars, profileVars, otherVars>>

NextToken ==
    \/ \E size \in -1..MaxSize, failed \in BOOLEAN, shaStr \in Digests :
           \E b \in RandomBytes(IF size < 0 \/ failed THEN 0 ELSE size) :
               GenerateToken(size, b, failed, shaStr)
    \/ Return

SpecToken == Init /\ [][NextToken]_vars

(***************************************************************************)
(* The relational operations by what they return for the failure err of    *)
(* their primary statement and the failure e of the hydration after it.    *)
(***************************************************************************)
Returned(op, r) ==
    IF r.error = Nil THEN Ok(op) ELSE IF r.notFound THEN NotFound(op) ELSE Failed(op)

StorageCall(op, context, err, e, r) ==
    /\ Call("storage", [op |-> op, context |-> context, err |-> err, e |-> e],
            r.error, Returned(op, r))
    /\ UNCHANGED <<currencyVars, profileVars, otherVars>>

PGCurrencyDeleteReturns(err) ==
    StorageCall("Delete", "", err, Nil, PGPoolCurrencyStoreDeleteReturn(err))

PGRouteUpdateReturns(context, err, e) ==
    StorageCall("Update", context, err, e, PGPoolRouteStoreUpdateReturn(context, err, e))

PGCurrencyQueryReturns(stage, err) ==
    StorageCall("Query", IF stage = 0 THEN "" ELSE QueryStages[stage],
                IF stage = 0 THEN Nil ELSE err, Nil,
                PGPoolCurrencyStoreQueryReturn(stage, err))

NextStorage ==
    \/ \E err \in {Nil} \cup {Ptr(x) : x \in StorageErrors} : PGCurrencyDeleteReturns(err)
    \/ \E context \in ForeignsContexts,
          err \in {Nil} \cup {Ptr(x) : x \in StorageErrors},
          e \in {Nil} \cup {Ptr(x) : x \in HydrationErrors} :
           PGRouteUpdateReturns(context, err, e)
    \/ \E stage \in 0..Len(QueryStages), err \in {Ptr(x) : x \in StorageErrors} :
           PGCurrencyQueryReturns(stage, err)
    \/ Return

SpecStorage == Init /\ [][NextStorage]_vars

(***************************************************************************)
(* The clauses rendered for every string a caller can put in a             *)
(* specification.                                                          *)
(***************************************************************************)
ToSqlClauses(specification, clauses) ==
    /\ Call("sql", specification, clauses, Ok("ToSqlClauses"))
    /\ UNCHANGED <<currencyVars, profileVars, otherVars>>

ProfileByKeyToSqlClauses(key) ==
    ToSqlClauses([kind |-> "profile by key", value |-> key],
                 ProfileSpecificationByKeyToSqlClauses(key))

RouterByKeyToSqlClauses(key) ==
    ToSqlClauses([kind |-> "router by key", value |-> key],
                 RouterSpecificationByKeyToSqlClauses(key))

TransactionByStatusToSqlClauses(id, status) ==
    ToSqlClauses([kind |-> "transaction by reference id and status", id |-> id,
                  value |-> status],
                 TransactionSpecificationByReferenceIdAndStatusToSqlClauses(id, status))

NextSql ==
    \/ \E key \in KeyValues : ProfileByKeyToSqlClauses(key)
    \/ \E key \in KeyValues : RouterByKeyToSqlClauses(key)
    \/ \E id \in {1, 12}, status \in KeyValues : TransactionByStatusToSqlClauses(id, status)
    \/ Return

SpecSql == Init /\ [][NextSql]_vars

(***************************************************************************)
(* Query of a relational store, step by step (currency.go 414-466; with    *)
(* the hydration of every row, part_002 173-262).  A frame is one running  *)
(* call of Query: the Query of the account store and, on top of it, the    *)
(* Query of the currency store its hydration calls.  A deferred call runs  *)
(* when its frame returns.                                                 *)
(***************************************************************************)
MaxRows == 2

QueryFrame(entity, rows, free) ==
    [entity |-> entity, pc |-> "acquire", held |-> 0, acquired |-> 0, released |-> 0,
     open |-> FALSE, rows |-> rows, left |-> rows, before |-> free]

Top == frames[Len(frames)]

At(pc) == frames # <<>> /\ Top.pc = pc

\* the variables no step of Query touches
poolRest ==
    <<currencyVars, profileVars, legacyVars, memoryVars, now, vaultVars, routeVars,
      mutex, profileMutex, callers, tableVars>>

Goto(f) ==
    /\ frames' = [frames EXCEPT ![Len(frames)] = f]
    /\ UNCHANGED <<poolFree, poolRest, callVars>>

\* a return that leaves the connection with the call
LeaveHolding(path, failed) ==
    /\ UNCHANGED <<poolFree, poolRest>>
    /\ IF Len(frames) = 1
       THEN /\ frames' = <<>>
            /\ Call("pgquery", [entity |-> Top.entity, rows |-> Top.rows],
                    [path |-> path, before |-> Top.before, acquired |-> Top.acquired,
                     released |-> Top.released],
                    IF failed THEN Failed("Query") ELSE Ok("Query"))
       ELSE /\ frames' = [SubSeq(frames, 1, Len(frames) - 1) EXCEPT ![Len(frames) - 1].pc =
                            IF failed THEN "hydration failed" ELSE "hydrated"]
            /\ UNCHANGED callVars

\* return: rows.Close() and conn.Release() run if they were deferred, the
\* result goes to the caller, or to the hydration of the Query below
Leave(path, failed) ==
    /\ poolFree' = poolFree + Top.held
    /\ UNCHANGED poolRest
    /\ IF Len(frames) = 1
       THEN /\ frames' = <<>>
            /\ Call("pgquery", [entity |-> Top.entity, rows |-> Top.rows],
                    [path |-> path, before |-> Top.before, acquired |-> Top.acquired,
                     released |-> Top.released + Top.held],
                    IF failed THEN Failed("Query") ELSE Ok("Query"))
       ELSE /\ frames' = [SubSeq(frames, 1, Len(frames) - 1) EXCEPT ![Len(frames) - 1].pc =
                            IF failed THEN "hydration failed" ELSE "hydrated"]
            /\ UNCHANGED callVars

QueryCalled(entity, rows) ==
    /\ Idle /\ frames = <<>>
    /\ frames' = <<QueryFrame(entity, rows, poolFree)>>
    /\ UNCHANGED <<poolFree, poolRest, callVars>>

\* pool.Acquire waits for a free connection, or fails
Acquire(ok) ==
    /\ At("acquire")
    /\ IF ok
       THEN /\ poolFree > 0
            /\ poolFree' = poolFree - 1
            /\ frames' = [frames EXCEPT ![Len(frames)] =
                             [Top EXCEPT !.held = 1, !.acquired = @ + 1, !.pc = "count"]]
            /\ UNCHANGED <<poolRest, callVars>>
       ELSE Leave("acquire failure", TRUE)

Count(ok) ==
    /\ At("count")
    /\ IF ok THEN Goto([Top EXCEPT !.pc = "query"]) ELSE Leave("count failure", TRUE)

RowsQuery(ok) ==
    /\ At("query")
    /\ IF ok THEN Goto([Top EXCEPT !.open = TRUE, !.pc = "next"])
       ELSE Leave("row query failure", TRUE)

RowsNext ==
    /\ At("next")
    /\ Goto([Top EXCEPT !.pc = IF Top.left > 0 THEN "scan" ELSE "err"])

Scan(ok) ==
    /\ At("scan")
    /\ IF ~ok THEN Leave("row scan failure", TRUE)
       ELSE IF Top.entity = "account" THEN Goto([Top EXCEPT !.pc = "hydrate"])
       ELSE Goto([Top EXCEPT !.left = @ - 1, !.pc = "next"])

\* refreshAccountForeigns: the Query of the currency repository for a row
\* that refers to a currency
Hydrate(referenced, rows) ==
    /\ At("hydrate")
    /\ IF referenced
       THEN /\ frames' = Append([frames EXCEPT ![Len(frames)].pc = "hydrating"],
                                QueryFrame("currency", rows, poolFree))
            /\ UNCHANGED <<poolFree, poolRest, callVars>>
       ELSE Goto([Top EXCEPT !.left = @ - 1, !.pc = "next"])

Hydrated ==
    \/ /\ At("hydrated")
       /\ Goto([Top EXCEPT !.left = @ - 1, !.pc = "next"])
    \/ /\ At("hydration failed")
       /\ Leave("hydration failure", TRUE)

RowsErr(ok) ==
    /\ At("err")
    /\ IF ok THEN Leave("success", FALSE) ELSE Leave("row iteration failure", TRUE)

NextPool ==
    \/ \E entity \in {"currency", "account"}, rows \in 0..MaxRows : QueryCalled(entity, rows)
    \/ \E ok \in BOOLEAN : Acquire(ok)
    \/ \E ok \in BOOLEAN : Count(ok)
    \/ \E ok \in BOOLEAN : RowsQuery(ok)
    \/ RowsNext
    \/ \E ok \in BOOLEAN : Scan(ok)
    \/ \E referenced \in BOOLEAN, rows \in 0..MaxRows : Hydrate(referenced, rows)
    \/ Hydrated
    \/ \E ok \in BOOLEAN : RowsErr(ok)
    \/ Return /\ frames = <<>>

SpecPool == Init /\ [][NextPool]_vars

(***************************************************************************)
(* OrderedMapCurrencyStore under concurrent callers (currency.go 262-356): *)
(* every goroutine runs its operation statement by statement, between      *)
(* cs.Lock() and the deferred cs.Unlock().  A goroutine's frame holds the  *)
(* operation, its input, the caller's record, the locals of the operation, *)
(* the values it is about to return, and the store as it was when the      *)
(* goroutine got the lock.                                                 *)
(***************************************************************************)
Frame(op, input) ==
    [op |-> op, pc |-> "lock", input |-> input, record |-> input, old |-> Nil,
     c |-> 0, l |-> <<>>, ret |-> NoCall, m |-> <<>>, next |-> 0]

\* the variables no step of the in-memory currency store touches
lockRest ==
    <<pgCurrencies, pgCurrencySeq, profileVars, legacyVars, memoryVars, now, vaultVars,
      routeVars, poolFree, frames, profileMutex, tableVars, callVars>>

In(p, op, pc) == callers[p].op = op /\ callers[p].pc = pc

\* a step of goroutine p that changes its frame only
Step(p, f) ==
    /\ callers' = [callers EXCEPT ![p] = f]
    /\ UNCHANGED <<currencies, currencyNextId, mutex, lockRest>>

\* a step of goroutine p that writes the map
Write(p, m, f) ==
    /\ currencies' = m
    /\ callers' = [callers EXCEPT ![p] = f]
    /\ UNCHANGED <<currencyNextId, mutex, lockRest>>

Enter(p, op, input) ==
    /\ callers[p] = NoFrame
    /\ op = "Add" => currencyNextId <= MaxAdds
    /\ Step(p, Frame(op, input))

\* a goroutine that does not wait for the mutex
LockNotWaiting(p) ==
    /\ callers[p].pc = "lock"
    /\ mutex' = p
    /\ callers' = [callers EXCEPT ![p] = [@ EXCEPT !.pc = "body", !.m = currencies,
                                                     !.next = currencyNextId]]
    /\ UNCHANGED <<currencies, currencyNextId, lockRest>>

\* cs.Lock(): the goroutine goes on when no other holds the mutex
Lock(p) ==
    /\ callers[p].pc = "lock"
    /\ mutex = 0
    /\ mutex' = p
    /\ callers' = [callers EXCEPT ![p] = [@ EXCEPT !.pc = "body", !.m = currencies,
                                                     !.next = currencyNextId]]
    /\ UNCHANGED <<currencies, currencyNextId, lockRest>>

\* id := cs.nextId; currency.Id = &id
AddRead(p) ==
    /\ In(p, "Add", "body")
    /\ Step(p, [callers[p] EXCEPT !.record.Id = Ptr(currencyNextId), !.pc = "set"])

\* cs.currencies.Set(*currency.Id, *currency)
AddSet(p) ==
    /\ In(p, "Add", "set")
    /\ Write(p, OMSet(currencies, Deref(callers[p].record.Id), callers[p].record),
             [callers[p] EXCEPT !.pc = "inc"])

\* cs.nextId++
AddInc(p) ==
    /\ In(p, "Add", "inc")
    /\ currencyNextId' = currencyNextId + 1
    /\ callers' = [callers EXCEPT ![p] = [@ EXCEPT !.ret = Ok("Add"), !.pc = "unlock"]]
    /\ UNCHANGED <<currencies, mutex, lockRest>>

\* cs.currencies.Delete(*currency.Id) and the copy of the deleted fields
DeleteBody(p) ==
    LET f == callers[p]
    IN  /\ In(p, "Delete", "body")
        /\ IF f.record.Id = Nil
           THEN Step(p, [f EXCEPT !.ret = Panicked("Delete"), !.pc = "unlock"])
           ELSE IF ~OMPresent(currencies, Deref(f.record.Id))
           THEN Step(p, [f EXCEPT !.ret = NotFound("Delete"), !.pc = "unlock"])
           ELSE LET deleted == OMGet(currencies, Deref(f.record.Id))
                IN  Write(p, OMDelete(currencies, Deref(f.record.Id)),
                          [f EXCEPT !.record.NumericCode = deleted.NumericCode,
                                    !.record.Name = deleted.Name,
                                    !.record.CharCode = deleted.CharCode,
                                    !.record.Exponent = deleted.Exponent,
                                    !.ret = Ok("Delete"), !.pc = "unlock"])

\* cs.currencies.Get(*currency.Id) and the merge of the four fields
UpdateGet(p) ==
    LET f == callers[p]
    IN  /\ In(p, "Update", "body")
        /\ IF f.record.Id = Nil
           THEN Step(p, [f EXCEPT !.ret = Panicked("Update"), !.pc = "unlock"])
           ELSE IF ~OMPresent(currencies, Deref(f.record.Id))
           THEN Step(p, [f EXCEPT !.ret = NotFound("Update"), !.pc = "unlock"])
           ELSE LET old == OMGet(currencies, Deref(f.record.Id))
                    merged == [old EXCEPT
                                 !.NumericCode = MergeField(f.record.NumericCode, @),
                                 !.Name = MergeField(f.record.Name, @),
                                 !.CharCode = MergeField(f.record.CharCode, @),
                                 !.Exponent = MergeField(f.record.Exponent, @)]
                IN  Step(p, [f EXCEPT !.old = Ptr(merged),
                                      !.record = [merged EXCEPT !.Id = f.record.Id],
                                      !.pc = "set"])

\* cs.currencies.Set(*old.Id, old)
UpdateSet(p) ==
    LET old == Deref(callers[p].old)
    IN  /\ In(p, "Update", "set")
        /\ Write(p, OMSet(currencies, Deref(old.Id), old),
                 [callers[p] EXCEPT !.ret = Ok("Update"), !.pc = "unlock"])

\* one turn of the loop over the map, or the return after its last turn
QueryTurn(p) ==
    LET f == callers[p]
    IN  /\ In(p, "Query", "body")
        /\ IF f.c < Len(currencies)
           THEN LET currency == currencies[f.c + 1].v
                IN  IF CurrencySpecifiedPanics(f.input, currency)
                    THEN Step(p, [f EXCEPT !.ret = Panicked("Query"), !.pc = "unlock"])
                    ELSE Step(p, [f EXCEPT !.l = IF CurrencySpecified(f.input, currency, f.c)
                                                THEN Append(@, currency) ELSE @,
                                          !.c = @ + 1])
           ELSE Step(p, [f EXCEPT !.ret = Queried(OMLen(currencies), f.l), !.pc = "unlock"])

\* the deferred cs.Unlock() and the return
Unlock(p) ==
    /\ callers[p].pc = "unlock"
    /\ mutex' = 0
    /\ callers' = [callers EXCEPT ![p] = NoFrame]
    /\ UNCHANGED <<currencies, currencyNextId, lockRest>>

\* the calls the goroutines make: an operation and its input
ConcurrentCalls ==
    { <<"Add", Currency(Nil, Nil, Ptr("euro"), Ptr("EUR"), Nil)>>,
      <<"Delete", Currency(Ptr(1), Nil, Nil, Nil, Nil)>>,
      <<"Delete", Currency(Nil, Nil, Nil, Nil, Nil)>>,
      <<"Update", Currency(Ptr(1), Ptr(978), Nil, Nil, Ptr(2))>>,
      <<"Query", WithLimitAndOffset(MaxLimit, 0)>>,
      <<"Query", ByNumericCode(978)>> }

NextLocked ==
    \E p \in Procs :
        \/ \E call \in ConcurrentCalls : Enter(p, call[1], call[2])
        \/ Lock(p)
        \/ AddRead(p) \/ AddSet(p) \/ AddInc(p)
        \/ DeleteBody(p)
        \/ UpdateGet(p) \/ UpdateSet(p)
        \/ QueryTurn(p)
        \/ Unlock(p)

SpecLocked == Init /\ [][NextLocked]_vars

(***************************************************************************)
(* OrderedMapProfileStore next to the OrderedMapCurrencyStore it hydrates  *)
(* from (profile.go 68-195, currency.go 262-356), under concurrent         *)
(* callers.  A profile operation runs between ps.Lock() and the deferred   *)
(* ps.Unlock(); refreshProfileCurrency calls the currency store's Query,   *)
(* which runs between cs.Lock() and the deferred cs.Unlock().  The         *)
(* currency store knows no profile store.                                  *)
(***************************************************************************)
ProfileFrame(op, input) ==
    [op |-> op, pc |-> "profile lock", input |-> input, record |-> input,
     c |-> 0, l |-> <<>>, ret |-> NoCall]

\* the variables no step of the two in-memory stores touches
nestedRest ==
    <<pgCurrencies, pgCurrencySeq, pgProfiles, pgProfileSeq, legacyVars, memoryVars, now,
      vaultVars, routeVars, poolFree, frames, tableVars, callVars>>

\* a step of goroutine p inside the profile store that changes its frame only
FrameStep(p, f) ==
    /\ callers' = [callers EXCEPT ![p] = f]
    /\ UNCHANGED <<currencyVars, profiles, profileNextId, mutex, profileMutex, nestedRest>>

\* a step of goroutine p that writes the profile store
ProfileWrite(p, m, nextId, f) ==
    /\ profiles' = m
    /\ profileNextId' = nextId
    /\ callers' = [callers EXCEPT ![p] = f]
    /\ UNCHANGED <<currencyVars, mutex, profileMutex, nestedRest>>

ProfileEnter(p, op, input) ==
    /\ callers[p] = NoFrame
    /\ op = "Add" => profileNextId <= MaxParents
    /\ FrameStep(p, ProfileFrame(op, input))

\* ps.Lock(): the goroutine goes on when no other holds the profile mutex
ProfileLock(p) ==
    /\ callers[p].pc = "profile lock"
    /\ profileMutex = 0
    /\ profileMutex' = p
    /\ callers' = [callers EXCEPT ![p] = [@ EXCEPT !.pc = "profile body"]]
    /\ UNCHANGED <<currencyVars, profiles, profileNextId, mutex, nestedRest>>

\* Add (profile.go 77-87): no hydration
ProfileAddBody(p) ==
    LET f == callers[p]
        a == OrderedMapProfileStoreAdd(profiles, profileNextId, f.record)
    IN  /\ In(p, "Add", "profile body")
        /\ ProfileWrite(p, a.store, a.next,
                        [f EXCEPT !.record = a.rec, !.ret = a.ret, !.pc = "profile unlock"])

\* Delete up to refreshProfileForeigns (profile.go 117-130)
ProfileDeleteBody(p) ==
    LET f == callers[p]
    IN  /\ In(p, "Delete", "profile body")
        /\ IF f.record.Id = Nil
           THEN FrameStep(p, [f EXCEPT !.ret = Panicked("Delete"), !.pc = "profile unlock"])
           ELSE IF ~OMPresent(profiles, Deref(f.record.Id))
           THEN FrameStep(p, [f EXCEPT !.ret = NotFound("Delete"), !.pc = "profile unlock"])
           ELSE LET deleted == OMGet(profiles, Deref(f.record.Id))
                IN  ProfileWrite(p, OMDelete(profiles, Deref(f.record.Id)), profileNextId,
                                 [f EXCEPT !.record.Key = deleted.Key,
                                           !.record.Description = deleted.Description,
                                           !.record.Currency = deleted.Currency,
                                           !.pc = "refresh"])

\* Update up to refreshProfileForeigns (profile.go 138-167)
ProfileUpdateBody(p) ==
    LET f == callers[p]
    IN  /\ In(p, "Update", "profile body")
        /\ IF f.record.Id = Nil
           THEN FrameStep(p, [f EXCEPT !.ret = Panicked("Update"), !.pc = "profile unlock"])
           ELSE IF ~OMPresent(profiles, Deref(f.record.Id))
           THEN FrameStep(p, [f EXCEPT !.ret = NotFound("Update"), !.pc = "profile unlock"])
           ELSE LET old == OMGet(profiles, Deref(f.record.Id))
                    merged == [old EXCEPT
                                 !.Key = MergeField(f.record.Key, @),
                                 !.Description = MergeField(f.record.Description, @),
                                 !.Currency = MergeField(f.record.Currency, @)]
                IN  ProfileWrite(p, OMSet(profiles, Deref(merged.Id), merged), profileNextId,
                                 [f EXCEPT !.record = [merged EXCEPT !.Id = f.record.Id],
                                           !.pc = "refresh"])

\* one turn of the loop of Query up to refreshProfileForeigns, or the
\* return after its last turn (profile.go 176-195)
ProfileQueryTurn(p) ==
    LET f == callers[p]
    IN  /\ In(p, "Query", "profile body")
        /\ IF f.c < Len(profiles)
           THEN LET profile == profiles[f.c + 1].v
                IN  IF ProfileSpecifiedPanics(f.input, profile)
                    THEN FrameStep(p, [f EXCEPT !.ret = Panicked("Query"),
                                                  !.pc = "profile unlock"])
                    ELSE IF ProfileSpecified(f.input, profile, f.c)
                    THEN FrameStep(p, [f EXCEPT !.record = profile, !.pc = "refresh"])
                    ELSE FrameStep(p, [f EXCEPT !.c = @ + 1])
           ELSE FrameStep(p, [f EXCEPT !.ret = Queried(OMLen(profiles), f.l),
                                         !.pc = "profile unlock"])

\* the frame after refreshProfileForeigns has returned nil
AfterRefresh(f) ==
    IF f.op = "Query"
    THEN [f EXCEPT !.l = Append(@, f.record), !.c = @ + 1, !.pc = "profile body"]
    ELSE [f EXCEPT !.ret = Ok(f.op), !.pc = "profile unlock"]

\* refreshProfileCurrency returns at once: no currency, or one without an id
RefreshSkip(p) ==
    /\ callers[p].pc = "refresh"
    /\ ~IdBearing(callers[p].record.Currency)
    /\ FrameStep(p, AfterRefresh(callers[p]))

\* cs.Lock() of the Query refreshProfileCurrency calls
RefreshLock(p) ==
    /\ callers[p].pc = "refresh"
    /\ IdBearing(callers[p].record.Currency)
    /\ mutex = 0
    /\ mutex' = p
    /\ callers' = [callers EXCEPT ![p] = [@ EXCEPT !.pc = "currency query"]]
    /\ UNCHANGED <<currencyVars, profiles, profileNextId, profileMutex, nestedRest>>

\* the body of that Query and "for _, currency := range currencies"
RefreshQuery(p) ==
    LET f == callers[p]
        r == OrderedMapCurrencyStoreQuery(currencies,
                                          ByID(Deref(Deref(f.record.Currency).Id)))
    IN  /\ f.pc = "currency query"
        /\ FrameStep(p, IF r.panic
                          THEN [f EXCEPT !.ret = Panicked(f.op), !.pc = "currency unlock"]
                          ELSE [f EXCEPT !.record.Currency = RangeAssign(@, r.list),
                                         !.pc = "currency unlock"])

\* a Query of the currency store that returns with the mutex held
RefreshUnlockSkipped(p) ==
    /\ callers[p].pc = "currency unlock"
    /\ FrameStep(p, IF callers[p].ret.panic
                      THEN [callers[p] EXCEPT !.pc = "profile unlock"]
                      ELSE AfterRefresh(callers[p]))

\* the deferred cs.Unlock() of that Query; the profile operation goes on
RefreshUnlock(p) ==
    /\ callers[p].pc = "currency unlock"
    /\ mutex' = 0
    /\ callers' = [callers EXCEPT ![p] = IF callers[p].ret.panic
                                          THEN [callers[p] EXCEPT !.pc = "profile unlock"]
                                          ELSE AfterRefresh(callers[p])]
    /\ UNCHANGED <<currencyVars, profiles, profileNextId, profileMutex, nestedRest>>

\* the deferred ps.Unlock() and the return
ProfileUnlock(p) ==
    /\ callers[p].pc = "profile unlock"
    /\ profileMutex' = 0
    /\ callers' = [callers EXCEPT ![p] = NoFrame]
    /\ UNCHANGED <<currencyVars, profiles, profileNextId, mutex, nestedRest>>

\* the calls the goroutines make on the currency store
NestedCurrencyCalls ==
    { <<"Add", Currency(Nil, Nil, Ptr("euro"), Ptr("EUR"), Nil)>>,
      <<"Query", WithLimitAndOffset(MaxLimit, 0)>> }

\* the calls the goroutines make on the profile store
NestedProfileCalls ==
    { <<"Add", Profile(Nil, Ptr("shop"), Nil, Nil)>>,
      <<"Update", Profile(Ptr(1), Nil, Nil, Ptr(ShallowCurrency(Ptr(2))))>>,
      <<"Delete", Profile(Ptr(1), Nil, Nil, Nil)>>,
      <<"Query", ByID(1)>> }

\* goroutine p enters a call on one of the two stores
EnterEither(p) ==
    \/ \E call \in NestedCurrencyCalls : Enter(p, call[1], call[2])
    \/ \E call \in NestedProfileCalls : ProfileEnter(p, call[1], call[2])

\* the next statement of the call goroutine p is in
Advance(p) ==
    \/ Lock(p)
    \/ AddRead(p) \/ AddSet(p) \/ AddInc(p)
    \/ QueryTurn(p)
    \/ Unlock(p)
    \/ ProfileLock(p)
    \/ ProfileAddBody(p)
    \/ ProfileDeleteBody(p)
    \/ ProfileUpdateBody(p)
    \/ ProfileQueryTurn(p)
    \/ RefreshSkip(p)
    \/ RefreshLock(p)
    \/ RefreshQuery(p)
    \/ RefreshUnlock(p)
    \/ ProfileUnlock(p)

NextNested == \E p \in Procs : EnterEither(p) \/ Advance(p)

\* sync.Mutex hands the lock to a goroutine that has waited (its starvation
\* mode), and the scheduler runs every runnable goroutine: a goroutine whose
\* next statement can run again and again runs it
SpecNested == Init /\ [][NextNested]_vars /\ \A p \in Procs : SF_vars(Advance(p))

(***************************************************************************)
(* The vault HTTP stores and the vault they talk to.  A request reaches    *)
(* the vault and is answered, or fails in transport and leaves the vault   *)
(* as it is.                                                               *)
(***************************************************************************)
HttpCall(entity, input, a) ==
    /\ Call(entity, input, a.rec, a.ret)
    /\ UNCHANGED <<currencyVars, profileVars, legacyVars, memoryVars, now, runVars, routeVars>>

Panic(record, op) == [rec |-> record, ret |-> Panicked(op)]

HttpCardAdd(c) ==
    /\ vaultCardSeq <= MaxCards
    /\ IF c.PAN = Nil \/ c.ExpDate = Nil \/ c.Holder = Nil
       THEN HttpCall("httpcard", c, Panic(c, "Add")) /\ UNCHANGED vaultVars
       ELSE \E token \in Tokens, delivered \in BOOLEAN :
              LET v == VaultCardsPost(vaultCards, vaultCardSeq, CardAddBody(c), token)
                  resp == IF delivered THEN v.resp ELSE TransportFailure
              IN  /\ HttpCall("httpcard", c, HttpClientCardStoreAdd(c, resp))
                  /\ vaultCards' = IF delivered THEN v.store ELSE vaultCards
                  /\ vaultCardSeq' = IF delivered THEN v.next ELSE vaultCardSeq
                  /\ UNCHANGED <<vaultSessions, vaultSessionSeq>>

HttpCardDelete(c) ==
    IF c.Id = Nil
    THEN HttpCall("httpcard", c, Panic(c, "Delete")) /\ UNCHANGED vaultVars
    ELSE \E delivered \in BOOLEAN :
           LET v == VaultCardsDelete(vaultCards, vaultCardSeq, Deref(c.Id))
               resp == IF delivered THEN v.resp ELSE TransportFailure
           IN  /\ HttpCall("httpcard", c, HttpClientCardStoreDelete(c, resp))
               /\ vaultCards' = IF delivered THEN v.store ELSE vaultCards
               /\ UNCHANGED <<vaultCardSeq, vaultSessions, vaultSessionSeq>>

HttpCardQuery(spec) ==
    /\ \E resp \in {VaultCardsGet(vaultCards, CardToQwrStr(spec)), TransportFailure} :
           HttpCall("httpcard", spec, [rec |-> Nil, ret |-> HttpClientCardStoreQuery(resp)])
    /\ UNCHANGED vaultVars

HttpSessionAdd(session) ==
    /\ vaultSessionSeq <= MaxSessions
    /\ IF session.Key = Nil
       THEN HttpCall("httpsession", session, Panic(session, "Add")) /\ UNCHANGED vaultVars
       ELSE \E delivered \in BOOLEAN :
              LET v == VaultSessionsPost(vaultSessions, vaultSessionSeq,
                                         SessionAddBody(session), now)
                  resp == IF delivered THEN v.resp ELSE TransportFailure
              IN  /\ HttpCall("httpsession", session, HttpClientSessionStoreAdd(session, resp))
                  /\ vaultSessions' = IF delivered THEN v.store ELSE vaultSessions
                  /\ vaultSessionSeq' = IF delivered THEN v.next ELSE vaultSessionSeq
                  /\ UNCHANGED <<vaultCards, vaultCardSeq>>

\* SessionSpecificationByKey.ToQwrStr (card.go 842-844) puts the key in the path
HttpSessionQuery(spec) ==
    /\ \E resp \in VaultSessionsGet(vaultSessions, spec.key, now) \cup {TransportFailure} :
           HttpCall("httpsession", spec,
                    [rec |-> Nil, ret |-> HttpClientSessionStoreQuery(resp)])
    /\ UNCHANGED vaultVars

NextVault ==
    \/ \E c \in CardAddInputs \cup {Card(Nil, Nil, Nil, Nil, Nil)} : HttpCardAdd(c)
    \/ \E c \in CardDeleteInputs : HttpCardDelete(c)
    \/ \E spec \in CardSpecs : HttpCardQuery(spec)
    \/ \E session \in SessionAddInputs \cup {Session(Nil, Nil, Nil, Nil)} :
           HttpSessionAdd(session)
    \/ \E key \in SessionKeys : HttpSessionQuery(ByKey(key))
    \/ \E d \in {expireSeconds, expireSeconds + 1} : Tick(d)
    \/ Return

SpecVault == Init /\ [][NextVault]_vars

(***************************************************************************)
(* The card vault client over every answer makeRequest (card.go 262-299)   *)
(* can hand it: a failure, or the status of the response and the JSON      *)
(* object of its body, whoever sent them.                                  *)
(***************************************************************************)
StatusCodes == {200, 201, 404, 500}

AnsweredCard == Card(Ptr(1), Ptr("9f86d0"), Ptr(<<"*", "5", "0", "0", "9">>), Ptr("25/12"),
                     Ptr("holder"))

ResponseBodies ==
    {CardJson(AnsweredCard), NotFoundJson, [data |-> <<CardJson(AnsweredCard)>>],
     [data |-> <<>>]}

Responses ==
    {TransportFailure} \cup {Response(status, json) : status \in StatusCodes,
                                                      json \in ResponseBodies}

Answered(op, input, resp, a) ==
    /\ HttpCall("httpclient", [op |-> op, input |-> input, resp |-> resp], a)
    /\ UNCHANGED vaultVars

HttpCardAddAnswered(c, resp) == Answered("Add", c, resp, HttpClientCardStoreAdd(c, resp))

HttpCardDeleteAnswered(c, resp) ==
    Answered("Delete", c, resp, HttpClientCardStoreDelete(c, resp))

HttpCardQueryAnswered(spec, resp) ==
    Answered("Query", spec, resp, [rec |-> Nil, ret |-> HttpClientCardStoreQuery(resp)])

NextHttp ==
    \/ \E c \in CardAddInputs, resp \in Responses : HttpCardAddAnswered(c, resp)
    \/ \E c \in CardDeleteInputs, resp \in Responses :
           c.Id # Nil /\ HttpCardDeleteAnswered(c, resp)
    \/ \E spec \in CardSpecs, resp \in Responses : HttpCardQueryAnswered(spec, resp)
    \/ Return

SpecHttp == Init /\ [][NextHttp]_vars

(***************************************************************************)
(* The route store of route.go 60-322 beside the relational profile store.  *)
(***************************************************************************)
RouteCall(input, a) ==
    /\ Call("route", input, a.rec, a.ret)
    /\ pgRoutes' = a.store /\ pgRouteSeq' = a.next
    /\ UNCHANGED <<currencyVars, profileVars, legacyVars, memoryVars, now, runVars, vaultVars>>

RouteAdd(route) ==
    /\ pgRouteSeq <= MaxRoutes
    /\ RouteCall(route, PGPoolRouteStoreAdd(pgRoutes, pgRouteSeq, route))

RouteDelete(route) == RouteCall(route, PGPoolRouteStoreDelete(pgRoutes, pgRouteSeq, route))

RouteUpdate(route) == RouteCall(route, PGPoolRouteStoreUpdate(pgRoutes, pgRouteSeq, route))

RouteQuery(spec) ==
    /\ \E order \in RowOrders(pgRoutes) :
           Call("route", spec, Nil, PGPoolRouteStoreQuery(pgRoutes, spec, order))
    /\ UNCHANGED <<currencyVars, profileVars, otherVars>>

NextRoute ==
    \/ \E p \in ProfileAddInputs : ProfileAdd(p)
    \/ \E route \in RouteAddInputs : RouteAdd(route)
    \/ \E route \in RouteDeleteInputs : RouteDelete(route)
    \/ \E route \in RouteUpdateInputs : RouteUpdate(route)
    \/ \E spec \in RouteSpecs : RouteQuery(spec)
    \/ Return

SpecRoute == Init /\ [][NextRoute]_vars

(***************************************************************************)
(* The in-memory currency store holding up to MaxAdds records.             *)
(***************************************************************************)
OrderedCurrencyAdd(c) ==
    /\ currencyNextId <= MaxAdds
    /\ CurrencyCall(c, OrderedMapCurrencyStoreAdd(currencies, currencyNextId, c),
                       PGPoolCurrencyStoreAdd(pgCurrencies, pgCurrencySeq, c))

NextOrder ==
    \/ \E c \in CurrencyAddInputs : OrderedCurrencyAdd(c)
    \/ \E c \in CurrencyDeleteInputs : CurrencyDelete(c)
    \/ \E c \in CurrencyUpdateInputs : CurrencyUpdate(c)
    \/ \E spec \in CurrencySpecs : CurrencyQuery(spec)
    \/ Return

SpecOrder == Init /\ [][NextOrder]_vars

(***************************************************************************)
(* The relational Update of a profile as the two steps it is made of, the  *)
(* statement and the hydration, with another caller of the currency store  *)
(* writing at any time.  Between the steps rec holds the caller's record   *)
(* as the statement scanned it, ret the statement's error, and arg the     *)
(* currencies table as the statement saw it.                               *)
(***************************************************************************)
SkewUpdateInputs ==
    {Profile(Ptr(i), Nil, Ptr("side"), Nil) : i \in RefIds}

ProfileUpdateStatement(p) ==
    LET s == PGPoolProfileStoreUpdateStatement(pgProfiles, pgProfileSeq, p)
    IN  /\ Idle
        /\ callee' = "statement"
        /\ arg' = [record |-> p, seen |-> pgCurrencies]
        /\ pgProfiles' = s.store
        /\ rec' = s.rec /\ ret' = s.ret
        /\ UNCHANGED <<currencyVars, profiles, profileNextId, pgProfileSeq,
                       recPg, retPg, otherVars>>

ProfileUpdateForeigns ==
    LET s == PGPoolProfileStoreUpdateForeigns(
                 Outcome(pgProfiles, pgProfileSeq, rec, ret), PGCurrencyByID)
    IN  /\ callee = "statement"
        /\ callee' = "profile"
        /\ rec' = s.rec /\ ret' = s.ret
        /\ UNCHANGED <<currencyVars, profileVars, arg, recPg, retPg, otherVars>>

\* PGPoolCurrencyStore.Update made by another caller
ConcurrentCurrencyUpdate(c) ==
    /\ pgCurrencies' = PGPoolCurrencyStoreUpdate(pgCurrencies, pgCurrencySeq, c).store
    /\ pgCurrencies' # pgCurrencies
    /\ UNCHANGED <<currencies, currencyNextId, pgCurrencySeq, profileVars,
                   callVars, otherVars>>

ReturnOfCall == callee # "statement" /\ Return

NextSkew ==
    \/ \E c \in CurrencyAddInputs : CurrencyAdd(c)
    \/ \E p \in ParentBodies : ParentAdd(p)
    \/ \E p \in SkewUpdateInputs : ProfileUpdateStatement(p)
    \/ ProfileUpdateForeigns
    \/ \E c \in CurrencyUpdateInputs : ConcurrentCurrencyUpdate(c)
    \/ ReturnOfCall

SpecSkew == Init /\ [][NextSkew]_vars

(***************************************************************************)
(* The in-memory session store on its own, with the clock.                 *)
(***************************************************************************)
NextSession ==
    \/ \E session \in SessionAddInputs : SessionAdd(session)
    \/ \E session \in SessionUpdateInputs : SessionUpdate(session)
    \/ \E spec \in SessionSpecs : SessionQuery(spec)
    \/ \E d \in {expireSeconds, expireSeconds + 1} : Tick(d)
    \/ Return

SpecSession == Init /\ [][NextSession]_vars

(***************************************************************************)
(* The in-memory currency store over the map its constructor is handed:    *)
(* NewOrderedMapCurrencyStore keeps the map as it is and starts nextId at  *)
(* 1.  Init is the store over an empty map; the other maps handed over     *)
(* hold a record under the key its Id field names.                         *)
(***************************************************************************)
BackingMaps ==
    { <<[k |-> 1, v |-> Currency(Ptr(1), Ptr(826), Ptr("pound"), Ptr("GBP"), Ptr(2))]>>,
      <<[k |-> 2, v |-> Currency(Ptr(2), Ptr(826), Ptr("pound"), Ptr("GBP"), Ptr(2))]>> }

NewOrderedMapCurrencyStore(m) ==
    /\ Idle
    /\ currencies = <<>> /\ currencyNextId = 1
    /\ currencies' = m /\ currencyNextId' = 1
    /\ UNCHANGED <<pgCurrencies, pgCurrencySeq, profileVars, callVars, otherVars>>

NextBacking ==
    \/ \E m \in BackingMaps : NewOrderedMapCurrencyStore(m)
    \/ \E c \in CurrencyAddInputs : OrderedCurrencyAdd(c)
    \/ \E c \in CurrencyDeleteInputs : CurrencyDelete(c)
    \/ \E c \in CurrencyUpdateInputs : CurrencyUpdate(c)
    \/ \E spec \in CurrencySpecs : CurrencyQuery(spec)
    \/ Return

SpecBacking == Init /\ [][NextBacking]_vars

(***************************************************************************)
(* The pointers the in-memory currency store shares with its callers.  Add *)
(* stores a copy of the caller's struct, so the entry holds the pointers   *)
(* of the caller's record: the Id pointer Add made and the field pointers  *)
(* the caller passed.  Query returns copies of the stored structs, which   *)
(* hold the same pointers again.  A caller that kept such a record writes  *)
(* through one of its pointers.  Update is left out, so every entry has    *)
(* pointers of its own and the key of an entry names them.                 *)
(***************************************************************************)
SharedFields == {"Id", "Name"}

WrittenValues == [Id |-> MaxAdds + 1, Name |-> "renamed"]

CallerWritesThrough(key, f) ==
    /\ Idle
    /\ OMPresent(currencies, key)
    /\ OMGet(currencies, key)[f] # Nil
    /\ currencies' = [currencies EXCEPT ![OMIndex(currencies, key)].v[f] = Ptr(WrittenValues[f])]
    /\ currencies' # currencies
    /\ UNCHANGED <<currencyNextId, pgCurrencies, pgCurrencySeq, profileVars, callVars,
                   otherVars>>

NextAlias ==
    \/ \E c \in CurrencyAddInputs : OrderedCurrencyAdd(c)
    \/ \E c \in CurrencyDeleteInputs : CurrencyDelete(c)
    \/ \E spec \in CurrencySpecs : CurrencyQuery(spec)
    \/ \E key \in Ids, f \in SharedFields : CallerWritesThrough(key, f)
    \/ Return

SpecAlias == Init /\ [][NextAlias]_vars

(***************************************************************************)
(* Queries of the relational stores made by several goroutines over one    *)
(* pool, the database answering every statement (part_002 173-262,         *)
(* currency.go 414-466).  pool.Acquire is called with a context that is    *)
(* never cancelled: it returns when a connection is free.  The Query of    *)
(* the account store keeps its connection, released by a deferred call,    *)
(* while refreshAccountForeigns runs the Query of the currency store for   *)
(* the row at hand.                                                        *)
(***************************************************************************)
waitRest ==
    <<currencyVars, profileVars, legacyVars, memoryVars, now, vaultVars, routeVars,
      frames, mutex, profileMutex, tableVars, callVars>>

Waiting(p, pc) == callers[p].op = "Query" /\ callers[p].pc = pc

Move(p, free, f) ==
    /\ poolFree' = free
    /\ callers' = [callers EXCEPT ![p] = f]
    /\ UNCHANGED waitRest

PoolQueryCalled(p, entity, rows) ==
    /\ callers[p] = NoFrame
    /\ Move(p, poolFree, [op |-> "Query", pc |-> "acquire", entity |-> entity, left |-> rows])

PoolAcquire(p) ==
    /\ Waiting(p, "acquire")
    /\ poolFree > 0
    /\ Move(p, poolFree - 1, [callers[p] EXCEPT !.pc = "rows"])

\* rows.Next and the Scan of a row; the row of an account refers to a currency
\* or to none
PoolRow(p, referenced) ==
    /\ Waiting(p, "rows")
    /\ callers[p].left > 0
    /\ IF callers[p].entity = "account" /\ referenced
       THEN Move(p, poolFree, [callers[p] EXCEPT !.pc = "hydration acquire"])
       ELSE Move(p, poolFree, [callers[p] EXCEPT !.left = @ - 1])

\* PGPoolCurrencyStore.Query called by refreshAccountCurrency: its Acquire
PoolHydrationAcquire(p) ==
    /\ Waiting(p, "hydration acquire")
    /\ poolFree > 0
    /\ Move(p, poolFree - 1, [callers[p] EXCEPT !.pc = "hydration rows"])

\* ... and its return, the deferred conn.Release() included
PoolHydrationReturn(p) ==
    /\ Waiting(p, "hydration rows")
    /\ Move(p, poolFree + 1, [callers[p] EXCEPT !.left = @ - 1, !.pc = "rows"])

PoolQueryReturn(p) ==
    /\ Waiting(p, "rows")
    /\ callers[p].left = 0
    /\ Move(p, poolFree + 1, NoFrame)

Proceed(p) ==
    \/ PoolAcquire(p)
    \/ \E referenced \in BOOLEAN : PoolRow(p, referenced)
    \/ PoolHydrationAcquire(p)
    \/ PoolHydrationReturn(p)
    \/ PoolQueryReturn(p)

NextWaiting ==
    \/ \E p \in Procs, entity \in {"currency", "account"}, rows \in 0..MaxRows :
           PoolQueryCalled(p, entity, rows)
    \/ \E p \in Procs : PoolAcquire(p)
    \/ \E p \in Procs, referenced \in BOOLEAN : PoolRow(p, referenced)
    \/ \E p \in Procs : PoolHydrationAcquire(p)
    \/ \E p \in Procs : PoolHydrationReturn(p)
    \/ \E p \in Procs : PoolQueryReturn(p)

\* every goroutine that can go on does, and one that waits for a connection
\* gets it if connections keep coming back
SpecWaiting ==
    Init /\ [][NextWaiting]_vars /\ \A p \in Procs : SF_vars(Proceed(p))

(***************************************************************************)
(* The Queries of the currency, profile and session stores over stores     *)
(* that hold records, the Query of the profile store with the Queries of   *)
(* the currency store its hydration makes.                                 *)
(***************************************************************************)
NextReadOnly ==
    \/ \E c \in CurrencyAddInputs : CurrencyAdd(c)
    \/ \E p \in ParentBodies : ParentAdd(p)
    \/ \E session \in SessionAddInputs : SessionAdd(session)
    \/ \E spec \in CurrencySpecs : CurrencyQuery(spec)
    \/ \E spec \in ProfileSpecs : ProfileQuery(spec)
    \/ \E spec \in SessionSpecs : SessionQuery(spec)
    \/ Tick(expireSeconds + 1)
    \/ Return

SpecReadOnly == Init /\ [][NextReadOnly]_vars

(***************************************************************************)
(* Hydration over every list the by-id Query of the owning repository can  *)
(* hand it: the repository is an interface, the list is what its Query     *)
(* returned.                                                               *)
(***************************************************************************)
MaxMatches == 2

\* refreshTransactionReference (route.go 717-735): q is what ts.Query by the
\* id of the reference returns
refreshTransactionReference(transaction, q) ==
    IF ~IdBearing(transaction.Reference)
    THEN [err |-> FALSE, transaction |-> transaction]
    ELSE IF q.err
    THEN [err |-> TRUE, transaction |-> transaction]
    ELSE [err |-> FALSE,
          transaction |-> [transaction EXCEPT !.Reference = RangeAssign(@, q.list)]]

\* records a by-id Query for id returns
CurrencyMatches(id) ==
    { Currency(Ptr(id), Ptr(978), Ptr("euro"), Ptr("EUR"), Ptr(2)),
      Currency(Ptr(id), Nil, Ptr("dollar"), Nil, Nil),
      Currency(Ptr(id), Nil, Nil, Nil, Nil) }

TransactionMatches(id) ==
    { Transaction(Ptr(id), Ptr(0), Ptr("new"), Nil),
      Transaction(Ptr(id), Ptr(0), Ptr("success"), Nil),
      Transaction(Ptr(id), Ptr(1), Ptr("failed"), Ptr(ShallowTransaction(Ptr(id)))) }

Lists(matches) == UNION {[1..n -> matches] : n \in 0..MaxMatches}

Refreshed(entity, record, q, r) ==
    /\ Call(entity, [record |-> record, q |-> q], r, IF q.err THEN Failed("refresh") ELSE Ok("refresh"))
    /\ UNCHANGED <<currencyVars, profileVars, otherVars>>

ProfileCurrencyRefreshed(profile, q) ==
    Refreshed("refreshProfileCurrency", profile, q,
              RefreshProfileForeigns(profile, [i \in RefIds |-> q]).profile)

TransactionReferenceRefreshed(transaction, q) ==
    Refreshed("refreshTransactionReference", transaction, q,
              refreshTransactionReference(transaction, q).transaction)

NextRefresh ==
    \/ \E p \in ProfileBodies :
         \E q \in {Failed("Query")}
                  \cup {Queried(Len(l), l) :
                            l \in Lists(CurrencyMatches(IF IdBearing(p.Currency)
                                                        THEN Deref(Deref(p.Currency).Id)
                                                        ELSE 1))} :
           ProfileCurrencyRefreshed(p, q)
    \/ \E t \in TransactionAddInputs :
         \E q \in {Failed("Query")}
                  \cup {Queried(Len(l), l) :
                            l \in Lists(TransactionMatches(IF IdBearing(t.Reference)
                                                           THEN Deref(Deref(t.Reference).Id)
                                                           ELSE 1))} :
           TransactionReferenceRefreshed(t, q)
    \/ Return

SpecRefresh == Init /\ [][NextRefresh]_vars

(***************************************************************************)
(* Update and Delete whose hydration may fail: the profile stores over a   *)
(* currency repository whose Query fails or answers, and the route store   *)
(* of card.go 1212-1579 over its four repositories.                        *)
(***************************************************************************)
MaxHydrated == 1

HydratedIds == 1..(MaxHydrated + 1)

\* the by-id Query of a currency repository that cannot be reached
BrokenByID == [i \in RefIds |-> Failed("Query")]

\* one sub-query of a route fails, or none does
RouteAnswers ==
    {[f \in Range(RouteForeigns) |-> IF f = failing THEN "fails" ELSE "one"] :
         failing \in Range(RouteForeigns) \cup {"no"}}
        \cup {[f \in Range(RouteForeigns) |-> "none"]}

\* a and b are the outcomes of the in-memory and of the relational store
Hydrating(entity, input, answers, a, b) ==
    /\ Idle
    /\ callee' = entity
    /\ arg' = [record |-> input, answers |-> answers]
    /\ rec' = a.rec /\ ret' = a.ret
    /\ recPg' = b.rec /\ retPg' = b.ret
    /\ UNCHANGED <<currencyVars, legacyVars, memoryVars, now, runVars, vaultVars>>

ProfileUpdateHydrating(p, broken) ==
    LET q == IF broken THEN BrokenByID ELSE CurrencyByID
        a == OrderedMapProfileStoreUpdate(profiles, profileNextId, p, q)
        b == PGPoolProfileStoreUpdate(pgProfiles, pgProfileSeq, p, q)
    IN  /\ Hydrating("profiles", p, broken, a, b)
        /\ profiles' = a.store /\ profileNextId' = a.next
        /\ pgProfiles' = b.store /\ pgProfileSeq' = b.next
        /\ UNCHANGED routeVars

ProfileDeleteHydrating(p, broken) ==
    LET q == IF broken THEN BrokenByID ELSE CurrencyByID
        a == OrderedMapProfileStoreDelete(profiles, profileNextId, p, q)
        b == PGPoolProfileStoreDelete(pgProfiles, pgProfileSeq, p, q)
    IN  /\ Hydrating("profiles", p, broken, a, b)
        /\ profiles' = a.store /\ profileNextId' = a.next
        /\ pgProfiles' = b.store /\ pgProfileSeq' = b.next
        /\ UNCHANGED routeVars

RouteUpdateHydrating(route, answers) ==
    LET a == PGPoolRouteStoreUpdateHydrating(pgRoutes, pgRouteSeq, route, answers)
    IN  /\ Hydrating("routes", route, answers, a, [rec |-> Nil, ret |-> NoCall])
        /\ pgRoutes' = a.store /\ pgRouteSeq' = a.next
        /\ UNCHANGED profileVars

RouteDeleteHydrating(route, answers) ==
    LET a == PGPoolRouteStoreDeleteHydrating(pgRoutes, pgRouteSeq, route, answers)
    IN  /\ Hydrating("routes", route, answers, a, [rec |-> Nil, ret |-> NoCall])
        /\ pgRoutes' = a.store /\ pgRouteSeq' = a.next
        /\ UNCHANGED profileVars

HydratedProfileAdd(p) ==
    /\ profileNextId <= MaxHydrated
    /\ ProfileCall(p, OrderedMapProfileStoreAdd(profiles, profileNextId, p),
                      PGPoolProfileStoreAdd(pgProfiles, pgProfileSeq, p))

HydratedRouteAdd(route) ==
    /\ pgRouteSeq <= MaxHydrated
    /\ RouteCall(route, PGPoolRouteStoreAdd(pgRoutes, pgRouteSeq, route))

NextHydration ==
    \/ \E p \in ParentBodies : HydratedProfileAdd(p)
    \/ \E route \in RouteAddInputs : HydratedRouteAdd(route)
    \/ \E i \in HydratedIds, broken \in BOOLEAN :
           ProfileUpdateHydrating(Profile(Ptr(i), Nil, Ptr("side"), Ptr(ShallowCurrency(Ptr(1)))),
                                  broken)
    \/ \E i \in HydratedIds, broken \in BOOLEAN :
           ProfileDeleteHydrating(Profile(Ptr(i), Nil, Nil, Nil), broken)
    \/ \E i \in HydratedIds, answers \in RouteAnswers :
           RouteUpdateHydrating(Route(Ptr(i), ShallowProfile(Ptr(1)), Nil, Nil, Nil, Nil), answers)
    \/ \E i \in HydratedIds, answers \in RouteAnswers :
           RouteDeleteHydrating(Route(Ptr(i), Nil, Nil, Nil, Nil, Nil), answers)
    \/ Return

SpecHydration == Init /\ [][NextHydration]_vars

(***************************************************************************)
(* Add of the relational currency, router and transaction stores, and the  *)
(* clock of the database server.                                           *)
(***************************************************************************)
RouterAdd(router) ==
    /\ Len(pgRouters) < MaxRouters
    /\ LET a == PGPoolRouterStoreAdd(pgRouters, router)
       IN  /\ Call("router", router, a.rec, a.ret)
           /\ pgRouters' = a.store
    /\ UNCHANGED <<currencyVars, profileVars, legacyVars, memoryVars, now, vaultVars, routeVars,
                   poolFree, frames, mutex, profileMutex, callers, pgTransactions, pgTransactionSeq>>

TransactionAdd(transaction) ==
    /\ pgTransactionSeq <= MaxTransactions
    /\ LET a == PGPoolTransactionStoreAdd(pgTransactions, pgTransactionSeq, transaction, now)
       IN  /\ Call("transaction", transaction, a.rec, a.ret)
           /\ pgTransactions' = a.store /\ pgTransactionSeq' = a.next
    /\ UNCHANGED <<currencyVars, profileVars, legacyVars, memoryVars, now, vaultVars, routeVars,
                   poolFree, frames, mutex, profileMutex, callers, pgRouters>>

NextAdd ==
    \/ \E c \in CurrencyAddInputs : CurrencyAdd(c)
    \/ \E router \in RouterAddInputs : RouterAdd(router)
    \/ \E transaction \in TransactionAddInputs : TransactionAdd(transaction)
    \/ Tick(expireSeconds)
    \/ Return

SpecAdd == Init /\ [][NextAdd]_vars

(***************************************************************************)
(* The transaction store and the Reference of a transaction (route.go      *)
(* 717-735, 802-937, 939-1105), one caller, the database answering every   *)
(* statement.  A frame of frames is a running call: an Update past its     *)
(* statement, or a Query by id, which refreshTransactionReference calls on *)
(* the store itself for the row at hand.  A Query holds the connection it  *)
(* acquired until it returns.                                              *)
(***************************************************************************)
ReferenceUpdateInputs ==
    {Transaction(Ptr(i), Nil, Nil, Ptr(ShallowTransaction(Ptr(j)))) :
        i \in 1..MaxTransactions, j \in 1..MaxTransactions}

\* the update statement and what the caller's record holds after the scan
PGPoolTransactionStoreUpdateStatement(t, transaction) ==
    LET i == PGRowIndex(t, transaction.Id)
        row == [t[i] EXCEPT
                  !.Status = Coalesce(transaction.Status, t[i].Status),
                  !.ReferenceId = Coalesce(RefId(transaction.Reference), t[i].ReferenceId)]
    IN  IF i = 0
        THEN Outcome(t, 0, transaction, NotFound("Update"))
        ELSE Outcome([t EXCEPT ![i] = row], 0,
                     [transaction EXCEPT
                        !.Status = row.Status,
                        !.Reference = IF row.ReferenceId # Nil
                                      THEN Ptr(ShallowTransaction(row.ReferenceId))
                                      ELSE @],
                     Ok("Update"))

referenceRest ==
    <<currencyVars, profileVars, legacyVars, memoryVars, now, vaultVars, routeVars,
      mutex, profileMutex, callers, pgRouters, callVars>>

Running(pc) == frames # <<>> /\ frames[Len(frames)].pc = pc

Turn(pc) == [frames EXCEPT ![Len(frames)].pc = pc]

ReferenceAdd(transaction) == frames = <<>> /\ TransactionAdd(transaction)

ReferenceUpdateCalled(transaction) ==
    LET s == PGPoolTransactionStoreUpdateStatement(pgTransactions, transaction)
    IN  /\ Idle /\ frames = <<>>
        /\ pgTransactions' = s.store
        /\ frames' = <<[op |-> "Update", id |-> RefId(s.rec.Reference), pc |-> "refresh"]>>
        /\ UNCHANGED <<poolFree, pgTransactionSeq, referenceRest>>

ReferenceQueryCalled(id) ==
    /\ Idle /\ frames = <<>>
    /\ frames' = <<[op |-> "Query", id |-> Ptr(id), pc |-> "acquire"]>>
    /\ UNCHANGED <<poolFree, pgTransactions, pgTransactionSeq, referenceRest>>

ReferenceQueryAcquire ==
    /\ Running("acquire")
    /\ poolFree > 0
    /\ poolFree' = poolFree - 1
    /\ frames' = Turn("rows")
    /\ UNCHANGED <<pgTransactions, pgTransactionSeq, referenceRest>>

\* the row of the Query by id, if there is one: its reference_id is scanned
\* into a shallow Reference, which refreshTransactionForeigns then loads
ReferenceQueryRows ==
    /\ Running("rows")
    /\ LET f == frames[Len(frames)]
           i == PGRowIndex(pgTransactions, f.id)
       IN  frames' = IF i = 0 THEN Turn("return")
                     ELSE [frames EXCEPT ![Len(frames)] =
                              [f EXCEPT !.id = pgTransactions[i].ReferenceId, !.pc = "refresh"]]
    /\ UNCHANGED <<poolFree, pgTransactions, pgTransactionSeq, referenceRest>>

\* refreshTransactionReference: ts.Query by the id of the Reference
ReferenceRefresh ==
    /\ Running("refresh")
    /\ LET f == frames[Len(frames)]
       IN  frames' = IF f.id = Nil THEN Turn("return")
                     ELSE Append(Turn("refreshing"),
                                 [op |-> "Query", id |-> f.id, pc |-> "acquire"])
    /\ UNCHANGED <<poolFree, pgTransactions, pgTransactionSeq, referenceRest>>

\* return of the call on top, the deferred conn.Release() of a Query included
ReferenceReturn ==
    /\ Running("return")
    /\ poolFree' = IF frames[Len(frames)].op = "Query" THEN poolFree + 1 ELSE poolFree
    /\ frames' = IF Len(frames) = 1 THEN <<>>
                 ELSE [SubSeq(frames, 1, Len(frames) - 1) EXCEPT ![Len(frames) - 1].pc = "return"]
    /\ UNCHANGED <<pgTransactions, pgTransactionSeq, referenceRest>>

ReferenceStep ==
    \/ ReferenceQueryAcquire
    \/ ReferenceQueryRows
    \/ ReferenceRefresh
    \/ ReferenceReturn

NextReference ==
    \/ \E transaction \in TransactionAddInputs : ReferenceAdd(transaction)
    \/ \E transaction \in ReferenceUpdateInputs : ReferenceUpdateCalled(transaction)
    \/ \E id \in 1..MaxTransactions : ReferenceQueryCalled(id)
    \/ ReferenceQueryAcquire
    \/ ReferenceQueryRows
    \/ ReferenceRefresh
    \/ ReferenceReturn
    \/ Return

\* a running call goes on whenever it can
SpecReference == Init /\ [][NextReference]_vars /\ WF_vars(ReferenceStep)

(***************************************************************************)
(* The displayed form of a PAN and the requests of the vault HTTP card      *)
(* store as its logger sees them.                                          *)
(***************************************************************************)
PanString(pan) ==
    /\ Call("pan", pan, PANString(pan), Ok("String"))
    /\ UNCHANGED <<currencyVars, profileVars, otherVars>>

\* Add posts the PAN in its body, Query by PAN carries it in its uri; the
\* response carries the PAN as the vault holds it or in its displayed form
LoggedRequest(op, pan, shown, answered) ==
    LET uri == IF op = "Query" THEN CardQueryUri(pan) ELSE <<"v", "1", "/", "c", "a", "r", "d", "s">>
        data == IF op = "Add" THEN CardAddData(pan) ELSE <<>>
        sent == makeRequest(uri, data, CardAddData(shown), answered)
    IN  /\ Call("makeRequest", [op |-> op, pan |-> pan, shown |-> shown], sent.logged, sent.ret)
        /\ UNCHANGED <<currencyVars, profileVars, otherVars>>

NextMask ==
    \/ \E pan \in PanValues : PanString(pan)
    \/ \E op \in {"Add", "Query"}, pan \in PanValues, answered \in BOOLEAN :
           \E shown \in {pan, PANString(pan)} : LoggedRequest(op, pan, shown, answered)
    \/ Return

SpecMask == Init /\ [][NextMask]_vars

(***************************************************************************)
(* Properties of the currency and profile repositories (Spec).             *)
(***************************************************************************)
CurrencyFields == {"NumericCode", "Name", "CharCode", "Exponent"}

Called(entity, op) == callee = entity /\ ret.op = op

\* the stored record with identifier id of an ordered map / a table
Stored(m, id) == OMGet(m, id)
Row(t, id) == t[PGRowIndex(t, Ptr(id))]
HasRow(t, idp) == PGRowIndex(t, idp) # 0

\* what a field holds after the merge of a partial record into a stored one
MergedField(partial, old, f) == IF partial[f] # Nil THEN partial[f] ELSE old[f]

\* the merge, seen across one Update step of the in-memory currency store
CurrencyUpdateMerges ==
    (callee' = "currency" /\ ret'.op = "Update" /\ arg'.Id # Nil
        /\ OMPresent(currencies, Deref(arg'.Id)))
    => /\ ~ret'.err /\ ~ret'.panic
       /\ OMPresent(currencies', Deref(arg'.Id))
       /\ \A f \in CurrencyFields :
            /\ Stored(currencies', Deref(arg'.Id))[f]
                 = MergedField(arg', Stored(currencies, Deref(arg'.Id)), f)
            /\ rec'[f] = Stored(currencies', Deref(arg'.Id))[f]

\* the same of the relational currency store
PGCurrencyUpdateMerges ==
    (callee' = "currency" /\ ret'.op = "Update" /\ HasRow(pgCurrencies, arg'.Id))
    => /\ ~retPg'.err
       /\ HasRow(pgCurrencies', arg'.Id)
       /\ \A f \in CurrencyFields :
            /\ Row(pgCurrencies', Deref(arg'.Id))[f]
                 = MergedField(arg', Row(pgCurrencies, Deref(arg'.Id)), f)
            /\ recPg'[f] = Row(pgCurrencies', Deref(arg'.Id))[f]

\* the same of the relational profile store; its reference field is the
\* column currency_id, absent when the reference is nil or carries no id
PGProfileUpdateMerges ==
    (callee' = "profile" /\ ret'.op = "Update" /\ HasRow(pgProfiles, arg'.Id))
    => LET old == Row(pgProfiles, Deref(arg'.Id))
           new == Row(pgProfiles', Deref(arg'.Id))
       IN  /\ ~retPg'.err
           /\ HasRow(pgProfiles', arg'.Id)
           /\ \A f \in {"Key", "Description"} :
                new[f] = MergedField(arg', old, f) /\ recPg'[f] = new[f]
           /\ new.CurrencyId = (IF RefId(arg'.Currency) # Nil
                                THEN RefId(arg'.Currency) ELSE old.CurrencyId)
           /\ RefId(recPg'.Currency) = new.CurrencyId

\* C2: Update of an existing record with a partial record changes exactly
\* the non-absent fields of the stored record, keeps the stored value of
\* every absent field, and leaves the caller's record equal to the stored
\* record field by field.
C2_UpdateMergesPartialRecord ==
    [][CurrencyUpdateMerges /\ PGCurrencyUpdateMerges /\ PGProfileUpdateMerges]_vars

\* an Update of both profile stores that set Description and kept the
\* stored Key, which the partial record did not carry
C2_Witness ==
    /\ Called("profile", "Update") /\ ~ret.err /\ ~retPg.err /\ ~ret.panic
    /\ arg.Key = Nil /\ arg.Description # Nil
    /\ recPg.Key # Nil /\ recPg.Description = arg.Description

\* what a following Query reports as the total count of a store
CurrencyTotal(m) == OrderedMapCurrencyStoreQuery(m, WithLimitAndOffset(0, 0)).total
PGCurrencyTotal(t) == PGPoolCurrencyStoreQuery(t, WithLimitAndOffset(0, 0), [i \in 1..Len(t) |-> i]).total
ProfileTotal(m) ==
    OrderedMapProfileStoreQuery(m, WithLimitAndOffset(0, 0), CurrencyByID).total
PGProfileTotal(t) ==
    PGPoolProfileStoreQuery(t, WithLimitAndOffset(0, 0), [i \in 1..Len(t) |-> i],
                            PGCurrencyByID).total

DeleteOfMissingCurrency ==
    (callee' = "currency" /\ ret'.op = "Delete" /\ arg'.Id # Nil)
    => /\ ~OMPresent(currencies, Deref(arg'.Id))
          => /\ ret'.err /\ ret'.notFound
             /\ CurrencyTotal(currencies') = CurrencyTotal(currencies)
       /\ ~HasRow(pgCurrencies, arg'.Id)
          => /\ retPg'.err /\ retPg'.notFound
             /\ PGCurrencyTotal(pgCurrencies') = PGCurrencyTotal(pgCurrencies)

DeleteOfMissingProfile ==
    (callee' = "profile" /\ ret'.op = "Delete" /\ arg'.Id # Nil)
    => /\ ~OMPresent(profiles, Deref(arg'.Id))
          => /\ ret'.err /\ ret'.notFound
             /\ ProfileTotal(profiles') = ProfileTotal(profiles)
       /\ ~HasRow(pgProfiles, arg'.Id)
          => /\ retPg'.err /\ retPg'.notFound
             /\ PGProfileTotal(pgProfiles') = PGProfileTotal(pgProfiles)

\* C3: Delete with an identifier no stored record has returns notFound=true
\* and a non-nil error, and the total count a following Query reports is
\* the one before the call.
C3_DeleteMissingIsNotFound ==
    [][DeleteOfMissingCurrency /\ DeleteOfMissingProfile]_vars

\* a Delete of an identifier that is not among the stored currencies
C3_Witness ==
    /\ Called("currency", "Delete") /\ arg.Id # Nil
    /\ ret.notFound /\ retPg.notFound
    /\ Len(currencies) > 0 /\ Len(pgCurrencies) > 0

\* the identifiers of the stored records in store order
RECURSIVE IdSeq(_)
IdSeq(m) == IF Len(m) = 0 THEN <<>> ELSE <<Head(m).v.Id>> \o IdSeq(Tail(m))

RECURSIVE PGIdSeq(_)
PGIdSeq(t) == IF Len(t) = 0 THEN <<>> ELSE <<Head(t).Id>> \o PGIdSeq(Tail(t))

\* the identifiers new of a store after a call op that found the
\* identifiers old: every record keeps its identifier, Add appends one
\* fresh identifier, Delete removes one
IdsKept(old, new, op) ==
    CASE op = "Add" -> \E id \in IdPtrs \ ({Nil} \cup Range(old)) : new = Append(old, id)
      [] op = "Delete" -> new = old \/ \E k \in 1..Len(old) : new = Without(old, k)
      [] OTHER -> new = old

C6_DeleteReturnsStoredFields ==
    [][(callee' = "profile" /\ ret'.op = "Delete" /\ ~retPg'.err)
       => LET old == Row(pgProfiles, Deref(arg'.Id))
          IN  /\ recPg'.Key = old.Key
              /\ recPg'.Description = old.Description
              /\ RefId(recPg'.Currency) = old.CurrencyId]_vars

\* the records two stores matched, whatever the order
SameMatches(a, b) == Range(a.list) = Range(b.list)

\* C9: the in-memory and the relational store of an entity give the same
\* outcome for the same sequence of calls: the same error and notFound
\* values and, when the call succeeds, the same total count, the same
\* matched records and the same contents of the caller's record.
C9_BackendsAgree ==
    (~Idle /\ ~ret.panic)
    => /\ ret.err = retPg.err
       /\ ret.notFound = retPg.notFound
       /\ ~ret.err => /\ ret.total = retPg.total
                      /\ SameMatches(ret, retPg)
                      /\ rec = recPg

(***************************************************************************)
(* Properties of the store NewOrderedMapCurrencyStore() of currency.go     *)
(* 147-157 constructs (SpecLegacy).                                        *)
(***************************************************************************)
\* C1: the identifiers the Add calls on a freshly constructed in-memory
\* store assign are strictly increasing, and the first one is 1.
C1_IdsIncreaseFromOne ==
    /\ assigned # <<>> => assigned[1] = 1
    /\ \A i, j \in 1..Len(assigned) : i < j => assigned[i] < assigned[j]

(***************************************************************************)
(* Properties of the in-memory card and session stores (SpecMemory).       *)
(***************************************************************************)
\* the records of an ordered map, oldest first
Records(m) == [i \in 1..Len(m) |-> m[i].v]

\* the records at the insertion positions offset .. offset+limit-1
Window(m, spec) ==
    SubSeq(Records(m), spec.offset + 1, Min(Len(m), spec.offset + spec.limit))

WindowSize(m, spec) == Min(spec.limit, Max(0, Len(m) - spec.offset))

LimitOffsetQueryOf(entity) == Called(entity, "Query") /\ arg.kind = "limitoffset"

\* C4 as stated: a limit/offset Query of an in-memory store holding N
\* records returns exactly min(limit, max(0, N-offset)) records, the ones at
\* the insertion positions offset .. offset+limit-1 in insertion order.
C4_QueryReturnsWholeWindow ==
    /\ LimitOffsetQueryOf("card") =>
           /\ Len(ret.list) = WindowSize(cards, arg)
           /\ ret.list = Window(cards, arg)
    /\ LimitOffsetQueryOf("session") =>
           /\ Len(ret.list) = WindowSize(sessions, arg)
           /\ ret.list = Window(sessions, arg)

\* C4 amended: a limit/offset Query returns, in insertion order, the records
\* at the insertion positions offset .. offset+limit-1; the card store
\* returns all min(limit, max(0, N-offset)) of them, the session store
\* those of them that have not expired at the time of the Query, which are
\* min(limit, max(0, N-offset)) records when none in the window has expired.
C4_QueryReturnsUnexpiredWindow ==
    /\ LimitOffsetQueryOf("card") =>
           /\ Len(ret.list) = WindowSize(cards, arg)
           /\ ret.list = Window(cards, arg)
    /\ LimitOffsetQueryOf("session") =>
           LET window == Window(sessions, arg)
               expired == {i \in 1..Len(window) : Deref(window[i].ExpireAt) < now}
           IN  /\ ret.list = SelectSeq(window, LAMBDA s : Deref(s.ExpireAt) >= now)
               /\ expired = {} => Len(ret.list) = WindowSize(sessions, arg)
               /\ Len(ret.list) = WindowSize(sessions, arg) - Cardinality(expired)

\* a session Query whose window holds an expired and an unexpired session
C4_Witness ==
    /\ LimitOffsetQueryOf("session")
    /\ Len(ret.list) >= 1
    /\ Len(ret.list) < WindowSize(sessions, arg)

(***************************************************************************)
(* Properties of the vault HTTP stores (SpecVault).                        *)
(***************************************************************************)
\* C5: the totalCount a successful Query returns is the number of all
\* records in the store, whatever the specification matched.  Stated of the
\* card store of the vault.
C5_TotalCountsAllRecords ==
    (Called("httpcard", "Query") /\ ~ret.err) => ret.total = Len(vaultCards)

\* C10: a session Query at time T returns no session whose expiration
\* timestamp is before T, and counts every stored session, an expired one
\* too, in totalCount.  Stated of the session store of the vault.
C10_QueryHidesExpiredAndCountsThem ==
    (Called("httpsession", "Query") /\ ~ret.err)
    => /\ \A i \in 1..Len(ret.list) :
              ret.list[i].ExpireAt # Nil => Deref(ret.list[i].ExpireAt) >= now
       /\ ret.total = Len(vaultSessions)

(***************************************************************************)
(* Properties of the route store of route.go 60-322 (SpecRoute).           *)
(***************************************************************************)
\* the profile with identifier idp as the profile repository returns it
LoadedProfile(idp) ==
    PGPoolProfileStoreQuery(pgProfiles, ByID(Deref(idp)),
                            [i \in 1..Len(pgProfiles) |-> i], PGCurrencyByID).list[1]

\* C8: every record Query returns has each non-nil, id-bearing reference
\* replaced by the fully loaded record of that entity's repository
\* whenever the record exists there.  Stated of the Profile of a route.
C8_QueryLoadsReferences ==
    (Called("route", "Query") /\ ~ret.err)
    => \A i \in 1..Len(ret.list) :
          LET profile == ret.list[i].Profile
          IN  (profile # Nil /\ Deref(profile).Id # Nil /\ HasRow(pgProfiles, Deref(profile).Id))
              => Deref(profile) = LoadedProfile(Deref(profile).Id)

(***************************************************************************)
(* Properties of the displayed and the logged form of a PAN (SpecMask).    *)
(***************************************************************************)
Stars(n) == [i \in 1..n |-> "*"]

\* the last four characters of a value, all of them when it has fewer
Last4(value) == SubSeq(value, Max(Len(value) - 4, 0) + 1, Len(value))

\* C11: the displayed form of a PAN of length L >= 4 is L-4 mask characters
\* followed by its last four characters; the displayed form of a PAN of
\* length L < 4 is the PAN itself, with no mask character.
C11_DisplayedFormMasksAllButLastFour ==
    Called("pan", "String")
    => /\ Len(arg) >= 4 => rec = Stars(Len(arg) - 4) \o SubSeq(arg, Len(arg) - 3, Len(arg))
       /\ Len(arg) < 4 => rec = arg /\ "*" \notin Range(rec)

\* the displayed form of a PAN longer than four characters
C11_Witness ==
    /\ Called("pan", "String")
    /\ Len(arg) > 4 /\ rec # arg /\ Len(rec) = Len(arg)

\* the strings makeRequest logs when every value after pan= or "pan":" is
\* written as value
LoggedAs(Value(_)) ==
    <<IF arg.op = "Query" THEN CardQueryUri(Value(arg.pan))
                          ELSE <<"v", "1", "/", "c", "a", "r", "d", "s">>,
      IF arg.op = "Add" THEN CardAddData(Value(arg.pan)) ELSE <<>>>>
        \o IF ret.err THEN <<>> ELSE <<CardAddData(Value(arg.shown))>>

\* C12 as stated: every PAN value in a logged string is replaced, so that
\* the string shows no character of the PAN but its last four.
C12_EveryPanValueIsReplaced ==
    Called("makeRequest", "makeRequest")
    => rec = LoggedAs(LAMBDA value : IF value = <<>> THEN value
                                                     ELSE LogMask \o Last4(value))

\* C12 amended: a PAN value of five or more characters is replaced by six
\* mask characters and its last four characters, a value of four or fewer
\* characters is logged as it is; either way the logged string shows no
\* character of the PAN but its last four.
C12_LongPanValuesAreReplaced ==
    Called("makeRequest", "makeRequest")
    => rec = LoggedAs(LAMBDA value : IF Len(value) >= 5 THEN LogMask \o Last4(value)
                                                        ELSE value)

\* an answered Add whose body and response carried a PAN of six characters
C12_Witness ==
    /\ Called("makeRequest", "makeRequest") /\ ~ret.err
    /\ arg.op = "Add" /\ Len(arg.pan) = 6 /\ arg.shown = arg.pan
    /\ rec[2] # CardAddData(arg.pan)

(***************************************************************************)
(* C13: the token of a card is set once, by Add: a card enters the store   *)
(* only in a call of Add, with the token that call generated; as long as   *)
(* the card is stored no call of Add, Delete or Query changes its token;   *)
(* and a Delete that succeeds hands the caller the token stored with the   *)
(* card, which is therefore the token Add generated.                       *)
(***************************************************************************)
CardStoredIds(m) == {m[i].k : i \in 1..Len(m)}

TokenSetByAdd ==
    \A id \in CardStoredIds(cards') \ CardStoredIds(cards) :
        /\ callee' = "card" /\ ret'.op = "Add" /\ ~ret'.err
        /\ rec'.Id = Ptr(id)
        /\ rec'.Token # Nil
        /\ Stored(cards', id).Token = rec'.Token

TokenKept ==
    \A id \in CardStoredIds(cards) \cap CardStoredIds(cards') :
        Stored(cards', id).Token = Stored(cards, id).Token

DeleteReturnsToken ==
    (callee' = "card" /\ ret'.op = "Delete" /\ ~ret'.err /\ ~ret'.panic /\ ret.op = "none")
        => /\ OMPresent(cards, Deref(arg'.Id))
           /\ rec'.Token = Stored(cards, Deref(arg'.Id)).Token
           /\ ~OMPresent(cards', Deref(arg'.Id))

C13_TokenSetOnceByAdd ==
    [][TokenSetByAdd /\ TokenKept /\ DeleteReturnsToken]_vars

\* two cards are stored under different tokens, and a Delete called with a
\* stale token has handed back the token of the card it removed
C13_Witness ==
    /\ Called("card", "Delete") /\ ~ret.err /\ ~ret.panic
    /\ arg.Token = Ptr("stale")
    /\ rec.Token = Ptr("2c26b4")
    /\ Len(cards) = 1 /\ cards[1].v.Token = Ptr("9f86d0")

(***************************************************************************)
(* C14: for every size and every value of the random bytes generateToken   *)
(* returns an error, or a token of exactly 64 characters, each of them a   *)
(* digit or a letter a to f in lower case.                                 *)
(***************************************************************************)
LowerHex == {"0", "1", "2", "3", "4", "5", "6", "7", "8", "9", "a", "b", "c", "d", "e", "f"}

IsToken(t) ==
    /\ t # Nil
    /\ Len(Deref(t)) = 64
    /\ \A i \in 1..Len(Deref(t)) : Deref(t)[i] \in LowerHex

VaultHoldsCard(idp) == \E i \in 1..Len(vaultCards) : vaultCards[i].Id = idp

C15_NotFoundOnlyWhenMissing ==
    [][(callee' = "httpcard" /\ ret'.op = "Delete" /\ ret.op = "none" /\ ret'.notFound)
          => ~VaultHoldsCard(arg'.Id)]_vars

(***************************************************************************)
(* C16: no failure of the storage is lost: whenever the primary statement  *)
(* of a relational operation fails, the error the caller gets is that      *)
(* failure with a context in front of it, also when the hydration that     *)
(* follows fails as well.                                                  *)
(***************************************************************************)
Wraps(error, cause) ==
    /\ error # Nil
    /\ Len(Deref(error)) > Len(Deref(cause))
    /\ SubSeq(Deref(error), Len(Deref(error)) - Len(Deref(cause)) + 1, Len(Deref(error)))
          = Deref(cause)

C16_StorageFailureReturnedWithContext ==
    (callee = "storage" /\ arg.err # Nil) => Wraps(rec, arg.err)

(***************************************************************************)
(* C17: no operation of a repository ends in a runtime panic: whatever the *)
(* record passed in and the content of the store, a call finishes by       *)
(* returning values.                                                       *)
(***************************************************************************)
C17_NoOperationPanics == ~ret.panic /\ ~retPg.panic

(***************************************************************************)
(* C18: the clause rendered for a specification that holds a string keeps  *)
(* the string inside one quoted literal: the literal opened in front of    *)
(* the value is closed by the last character of the clause and by no       *)
(* quote of the value.  In SQL a literal ends at the first quote that is   *)
(* not followed by a second one; two quotes in a row stand for a quote     *)
(* inside the literal.                                                     *)
(***************************************************************************)
RECURSIVE LiteralEnd(_, _)
LiteralEnd(sql, j) ==
    IF j > Len(sql) THEN 0
    ELSE IF sql[j] # "'" THEN LiteralEnd(sql, j + 1)
    ELSE IF j < Len(sql) /\ sql[j + 1] = "'" THEN LiteralEnd(sql, j + 2)
    ELSE j

\* the place of the quote that opens the literal of the value
LiteralStart(sql) == CHOOSE j \in 1..Len(sql) : sql[j] = "'" /\ \A k \in 1..(j - 1) : sql[k] # "'"

C18_ValueStaysInsideOneLiteral ==
    Called("sql", "ToSqlClauses") => LiteralEnd(rec, LiteralStart(rec) + 1) = Len(rec)

(***************************************************************************)
(* C19: a relational Query acquires one connection and releases it on      *)
(* every way out: a Query that got past Acquire has acquired one           *)
(* connection and released one when it returns, a running Query holds at   *)
(* most the one it acquired, and when the Query has returned to its caller *)
(* the pool has as many free connections as before the call.               *)
(***************************************************************************)
PathsAfterAcquire ==
    {"success", "count failure", "row query failure", "row scan failure",
     "hydration failure", "row iteration failure"}

RECURSIVE HeldBy(_)
HeldBy(fs) == IF fs = <<>> THEN 0 ELSE Head(fs).held + HeldBy(Tail(fs))

C19_QueryReleasesItsConnection ==
    /\ poolFree + HeldBy(frames) = MaxConns
    /\ \A i \in 1..Len(frames) :
           /\ frames[i].held = frames[i].acquired - frames[i].released
           /\ frames[i].acquired <= 1
    /\ Called("pgquery", "Query") =>
           /\ poolFree = rec.before
           /\ rec.path \in PathsAfterAcquire => rec.acquired = 1 /\ rec.released = 1
           /\ rec.path \notin PathsAfterAcquire => rec.acquired = 0 /\ rec.released = 0

\* the Query of the account store has returned the failure of a hydration
\* that ran on a second connection
C19_Witness ==
    /\ Called("pgquery", "Query") /\ ret.err
    /\ arg.entity = "account"
    /\ rec.path = "hydration failure"
    /\ rec.acquired = 1 /\ rec.released = 1
    /\ poolFree = MaxConns

(***************************************************************************)
(* C20: the operations of one in-memory store exclude each other: a        *)
(* goroutine that is past cs.Lock() holds the mutex, so no two are; when   *)
(* an operation is about to return, the store, the caller's record and     *)
(* the returned values are what the operation makes, as one step, of the   *)
(* store the goroutine found when it got the lock: an Add has stored its   *)
(* record under the next identifier, which no other Add got, and a Query   *)
(* returns the records of one content of the store.                        *)
(***************************************************************************)
AtomicOutcome(f) ==
    CASE f.op = "Add" -> OrderedMapCurrencyStoreAdd(f.m, f.next, f.input)
      [] f.op = "Delete" -> OrderedMapCurrencyStoreDelete(f.m, f.next, f.input)
      [] f.op = "Update" -> OrderedMapCurrencyStoreUpdate(f.m, f.next, f.input)
      [] f.op = "Query" ->
            Outcome(f.m, f.next, f.input, OrderedMapCurrencyStoreQuery(f.m, f.input))

C20_OperationsAreAtomic ==
    /\ \A p \in Procs : callers[p].pc \notin {"idle", "lock"} => mutex = p
    /\ \A p \in Procs :
           callers[p].pc = "unlock" =>
               LET a == AtomicOutcome(callers[p])
               IN  /\ currencies = a.store /\ currencyNextId = a.next
                   /\ callers[p].record = a.rec
                   /\ callers[p].ret = a.ret
    /\ \A i \in 1..Len(currencies) :
           /\ currencies[i].v.Id = Ptr(currencies[i].k)
           /\ currencies[i].k < currencyNextId + (IF \E p \in Procs : In(p, "Add", "inc")
                                                   THEN 1 ELSE 0)
           /\ \A j \in 1..Len(currencies) : currencies[j].k = currencies[i].k => j = i

\* the second of two concurrent Adds is about to return with the identifier
\* 2 while another goroutine waits for the mutex, both records are stored
C20_Witness ==
    /\ In(2, "Add", "unlock") /\ callers[2].record.Id = Ptr(2)
    /\ callers[1].pc = "lock"
    /\ Len(currencies) = 2
    /\ currencies[1].k = 1 /\ currencies[2].k = 2

(***************************************************************************)
(* Add followed by Query by PAN on the in-memory card store (SpecCard).    *)
(***************************************************************************)
CardsWithPAN(m, pan) == {i \in 1..Len(m) : m[i].v.PAN = Ptr(pan)}

\* the call of Add that has just returned found no card with its PAN stored
\* and a Query by that PAN on the store it leaves returns the added card alone
AddedIsFoundByPAN ==
    (/\ callee' = "card" /\ ret'.op = "Add" /\ ~ret'.err /\ ret.op = "none"
     /\ CardsWithPAN(cards, Deref(arg'.PAN)) = {})
    => LET q == OrderedMapCardStoreQuery(cards', ByPAN(Deref(arg'.PAN)))
       IN  /\ ~q.err /\ ~q.panic
           /\ q.list = <<rec'>>
           /\ rec'.Id = Ptr(cardNextId) /\ rec'.Token # Nil
           /\ rec' = [arg' EXCEPT !.Id = rec'.Id, !.Token = rec'.Token]
           /\ PANString(Deref(q.list[1].PAN))
                  = Stars(Len(Deref(arg'.PAN)) - 4) \o Last4(Deref(arg'.PAN))

\* a Query by a PAN that one stored card carries returns that card alone,
\* under the id it is stored under
QueryByPANReturnsTheCard ==
    (/\ callee' = "card" /\ ret'.op = "Query" /\ ret.op = "none"
     /\ arg'.kind = "bypan"
     /\ Cardinality(CardsWithPAN(cards, arg'.pan)) = 1)
    => LET i == CHOOSE i \in CardsWithPAN(cards, arg'.pan) : TRUE
       IN  /\ ~ret'.err /\ ~ret'.panic
           /\ ret'.list = <<cards[i].v>>
           /\ cards[i].v.Id = Ptr(cards[i].k) /\ cards[i].v.Token # Nil

ProfileDeleteStep == callee' = "profile" /\ ret'.op = "Delete" /\ ret.op = "none"

\* the currency stores hold after the Delete what they held before it
ReferencedKept ==
    ProfileDeleteStep
    => /\ currencies' = currencies /\ currencyNextId' = currencyNextId
       /\ pgCurrencies' = pgCurrencies /\ pgCurrencySeq' = pgCurrencySeq

\* the other parents are stored as before, and the by-id Query their
\* references are resolved with answers what it answered before
OtherParentsKept ==
    ProfileDeleteStep
    => /\ \A i \in 1..Len(profiles) :
            profiles[i].k # Deref(arg'.Id)
            => /\ OMPresent(profiles', profiles[i].k)
               /\ Stored(profiles', profiles[i].k) = profiles[i].v
               /\ IdBearing(profiles[i].v.Currency)
                  => LET id == Deref(Deref(profiles[i].v.Currency).Id)
                     IN  OrderedMapCurrencyStoreQuery(currencies', ByID(id))
                            = OrderedMapCurrencyStoreQuery(currencies, ByID(id))
       /\ \A i \in 1..Len(pgProfiles) :
            pgProfiles[i].Id # arg'.Id
            => \E j \in 1..Len(pgProfiles') : pgProfiles'[j] = pgProfiles[i]

\* C22: deleting a parent entity never cascades: the stores of the entities
\* it references hold exactly the same records after the Delete as before,
\* and a record referenced by several parents stays available to the
\* others.
C22_DeleteNeverCascades == [][ReferencedKept /\ OtherParentsKept]_vars

\* one of two profiles that refer to the stored currency 1 has been deleted:
\* the other profile and the currency are stored in both backends
C22_Witness ==
    /\ Called("profile", "Delete") /\ ~ret.err /\ ~retPg.err
    /\ rec.Currency # Nil /\ Deref(rec.Currency).Name = Ptr("euro")
    /\ Len(profiles) = 1 /\ IdBearing(profiles[1].v.Currency)
    /\ Deref(profiles[1].v.Currency).Id = Deref(rec.Currency).Id
    /\ OMPresent(currencies, 1)
    /\ Len(pgProfiles) = 1 /\ pgProfiles[1].CurrencyId = Ptr(1)
    /\ HasRow(pgCurrencies, Ptr(1))

(***************************************************************************)
(* The identifier after Add (SpecAdd).  An identifier is chosen by the     *)
(* store when the Add of the same record under any other identifier of the *)
(* caller, where it succeeds, leaves the same identifier in the record.    *)
(***************************************************************************)
AddStep(entity) == callee' = entity /\ ret'.op = "Add" /\ ret.op = "none"

WithId(record, idp) == [record EXCEPT !.Id = idp]

CurrencyAddAssignsId ==
    AddStep("currency")
    => /\ ~ret'.err => rec'.Id # Nil
       /\ ~retPg'.err => recPg'.Id # Nil
       /\ \A idp \in IdPtrs :
            /\ OrderedMapCurrencyStoreAdd(currencies, currencyNextId, WithId(arg', idp)).rec.Id
                 = rec'.Id
            /\ PGPoolCurrencyStoreAdd(pgCurrencies, pgCurrencySeq, WithId(arg', idp)).rec.Id
                 = recPg'.Id

RouterAddAssignsId ==
    (AddStep("router") /\ ~ret'.err)
    => /\ rec'.Id # Nil
       /\ \A idp \in IdPtrs :
            LET other == PGPoolRouterStoreAdd(pgRouters, WithId(arg', idp))
            IN  ~other.ret.err => other.rec.Id = rec'.Id

TransactionAddAssignsId ==
    (AddStep("transaction") /\ ~ret'.err)
    => /\ rec'.Id # Nil /\ rec'.Created = Ptr(now)
       /\ \A idp \in IdPtrs :
            LET other == PGPoolTransactionStoreAdd(pgTransactions, pgTransactionSeq,
                                                   WithId(arg', idp), now)
            IN  other.rec.Id = rec'.Id /\ other.rec.Created = rec'.Created

\* C23: for every entity and backend, after a successful Add the caller's
\* record carries a non-absent identifier chosen by the store, not by the
\* caller, and for transactions also the creation timestamp the server
\* generated.
C23_AddAssignsIdentifier ==
    [][CurrencyAddAssignsId /\ RouterAddAssignsId /\ TransactionAddAssignsId]_vars

(***************************************************************************)
(* The status of the response and the outcome of the vault client          *)
(* (SpecHttp).                                                             *)
(***************************************************************************)
Is2xx(resp) == ~resp.fail /\ resp.status \in 200..299

\* C24: a card vault operation (Add, Delete, Query) returns a nil error only
\* when the HTTP response was a 2xx one; for Delete every status other than
\* 200 yields an error and the response is not decoded into the caller's
\* card.
C24_SuccessOnlyOn2xx ==
    callee = "httpclient"
    => /\ (~ret.err /\ ~ret.panic) => Is2xx(arg.resp)
       /\ (arg.op = "Delete" /\ ~arg.resp.fail /\ arg.resp.status # 200)
          => ret.err /\ rec = arg.input

\* Delete alone: success only on status 200, every other answer an error
DeleteSucceedsOnlyOn200 ==
    (callee = "httpclient" /\ arg.op = "Delete")
    => /\ (~ret.err /\ ~ret.panic) => (~arg.resp.fail /\ arg.resp.status = 200)
       /\ (arg.resp.fail \/ arg.resp.status # 200) => ret.err /\ rec = arg.input

(***************************************************************************)
(* Hydration whose by-id sub-query finds no match (SpecParents).  The      *)
(* reference a call hydrates is the one of the stored record in the        *)
(* in-memory store, and in the relational store the one built from the     *)
(* currency_id its statement returned, or the caller's own where the       *)
(* statement returned none.                                                *)
(***************************************************************************)
ZeroMatches(q, ref) ==
    /\ IdBearing(ref)
    /\ ~q[Deref(Deref(ref).Id)].err
    /\ q[Deref(Deref(ref).Id)].list = <<>>

ProfileStep(op) == callee' = "profile" /\ ret'.op = op /\ ret.op = "none" /\ arg'.Id # Nil

\* the reference of the stored record an in-memory Update or Delete hydrates
StoredRef(op) ==
    IF op = "Update" THEN Stored(profiles', Deref(arg'.Id)).Currency
    ELSE Stored(profiles, Deref(arg'.Id)).Currency

\* the reference a relational Update or Delete hydrates
ScannedRef(op) ==
    LET i == PGRowIndex(pgProfiles, arg'.Id)
    IN  IF i # 0
        THEN ScanRef(arg'.Currency, IF op = "Update" THEN Row(pgProfiles', Deref(arg'.Id)).CurrencyId
                                    ELSE pgProfiles[i].CurrencyId)
        ELSE IF op = "Update" THEN ScanRef(arg'.Currency, RefId(arg'.Currency))
        ELSE arg'.Currency

IsShallow(ref) == ref = Ptr(ShallowCurrency(Deref(ref).Id))

MemoryZeroMatchesKeep(op) ==
    (ProfileStep(op) /\ OMPresent(profiles, Deref(arg'.Id))
        /\ ZeroMatches(CurrencyByID, StoredRef(op)))
    => /\ ~ret'.err /\ ~ret'.panic
       /\ rec'.Currency = StoredRef(op) /\ IsShallow(rec'.Currency)

PGZeroMatchesSucceed(op) ==
    (ProfileStep(op) /\ ZeroMatches(PGCurrencyByID, ScannedRef(op)))
    => /\ ~retPg'.err
       /\ recPg'.Currency = ScannedRef(op) /\ IsShallow(recPg'.Currency)

\* the hydration adds no failure: the call fails when its statement found no row
PGZeroMatchesKeep(op) ==
    (ProfileStep(op) /\ ZeroMatches(PGCurrencyByID, ScannedRef(op)))
    => /\ retPg'.err <=> ~HasRow(pgProfiles, arg'.Id)
       /\ retPg'.notFound <=> ~HasRow(pgProfiles, arg'.Id)
       /\ recPg'.Currency = ScannedRef(op) /\ IsShallow(recPg'.Currency)

QueryZeroMatchesKeep ==
    (callee' = "profile" /\ ret'.op = "Query" /\ ret.op = "none" /\ ~ret'.panic)
    => /\ \A k \in 1..Len(ret'.list) :
            LET ref == Stored(profiles, Deref(ret'.list[k].Id)).Currency
            IN  ZeroMatches(CurrencyByID, ref)
                => ret'.list[k].Currency = ref /\ IsShallow(ref)
       /\ \A k \in 1..Len(retPg'.list) :
            LET ref == ScanRef(Nil, Row(pgProfiles, Deref(retPg'.list[k].Id)).CurrencyId)
            IN  ZeroMatches(PGCurrencyByID, ref)
                => retPg'.list[k].Currency = ref /\ IsShallow(ref)
       /\ (\A i \in 1..Len(profiles) :
              IdBearing(profiles[i].v.Currency)
              => ZeroMatches(CurrencyByID, profiles[i].v.Currency))
          => ~ret'.err
       /\ (\A i \in 1..Len(pgProfiles) :
              pgProfiles[i].CurrencyId # Nil
              => ZeroMatches(PGCurrencyByID, ScanRef(Nil, pgProfiles[i].CurrencyId)))
          => ~retPg'.err

HydratingStep(entity, op) == callee' = entity /\ ret.op = "none" /\ ret'.op = op

ProfileFields == {"Key", "Description", "Currency"}

\* the stored profile with the fields of the caller's record merged in
MergedProfile(partial, old) ==
    [f \in DOMAIN old |-> IF f \in ProfileFields THEN MergedField(partial, old, f) ELSE old[f]]

MemoryUpdateFailedHydration ==
    LET p == arg'.record
        old == Stored(profiles, Deref(p.Id))
    IN  (HydratingStep("profiles", "Update") /\ arg'.answers
            /\ OMPresent(profiles, Deref(p.Id))
            /\ IdBearing(MergedProfile(p, old).Currency))
        => /\ ret'.err /\ ~ret'.notFound
           /\ Stored(profiles', Deref(p.Id)) = MergedProfile(p, old)
           /\ rec'.Currency = MergedProfile(p, old).Currency

MemoryDeleteFailedHydration ==
    LET p == arg'.record
        old == Stored(profiles, Deref(p.Id))
    IN  (HydratingStep("profiles", "Delete") /\ arg'.answers
            /\ OMPresent(profiles, Deref(p.Id)) /\ IdBearing(old.Currency))
        => /\ ret'.err /\ ~ret'.notFound
           /\ ~OMPresent(profiles', Deref(p.Id)) /\ Len(profiles') = Len(profiles) - 1
           /\ rec'.Currency = old.Currency

PGUpdateFailedHydration ==
    LET p == arg'.record
        old == Row(pgProfiles, Deref(p.Id))
        new == [old EXCEPT !.Key = Coalesce(p.Key, @),
                           !.Description = Coalesce(p.Description, @),
                           !.CurrencyId = Coalesce(RefId(p.Currency), @)]
    IN  (HydratingStep("profiles", "Update") /\ arg'.answers
            /\ HasRow(pgProfiles, p.Id) /\ IdBearing(ScanRef(p.Currency, new.CurrencyId)))
        => /\ retPg'.err /\ ~retPg'.notFound
           /\ Row(pgProfiles', Deref(p.Id)) = new
           /\ recPg'.Currency = ScanRef(p.Currency, new.CurrencyId)

PGDeleteFailedHydration ==
    LET p == arg'.record
        old == Row(pgProfiles, Deref(p.Id))
    IN  (HydratingStep("profiles", "Delete") /\ arg'.answers
            /\ HasRow(pgProfiles, p.Id) /\ IdBearing(ScanRef(p.Currency, old.CurrencyId)))
        => /\ retPg'.err /\ ~retPg'.notFound
           /\ ~HasRow(pgProfiles', p.Id) /\ Len(pgProfiles') = Len(pgProfiles) - 1
           /\ recPg'.Currency = ScanRef(p.Currency, old.CurrencyId)

\* the references of the returned route when the sub-query of the k-th
\* reference has failed: the ones before it resolved, it and the ones after
\* it as the scan of the row left them
HydratedUpTo(scanned, k) ==
    \A j \in 1..Len(RouteForeigns) :
        LET f == RouteForeigns[j]
        IN  IF j < k /\ IdBearing(scanned[f])
            THEN rec'[f] = Ptr(Loaded(f, scanned[f]))
            ELSE rec'[f] = scanned[f]

RouteFailedHydration(op) ==
    LET route == arg'.record
        old == Row(pgRoutes, Deref(route.Id))
        sent == RouteRow(route.Id, route)
        new == [f \in DOMAIN old |-> IF f = "Id" THEN old.Id ELSE Coalesce(sent[f], old[f])]
        scanned == ScanRoute(route, IF op = "Update" THEN new ELSE old)
    IN  \A k \in 1..Len(RouteForeigns) :
            (HydratingStep("routes", op) /\ HasRow(pgRoutes, route.Id)
                /\ arg'.answers[RouteForeigns[k]] = "fails"
                /\ IdBearing(scanned[RouteForeigns[k]]))
            => /\ ret'.err /\ ~ret'.notFound
               /\ IF op = "Update"
                  THEN Row(pgRoutes', Deref(route.Id)) = new /\ Len(pgRoutes') = Len(pgRoutes)
                  ELSE ~HasRow(pgRoutes', route.Id) /\ Len(pgRoutes') = Len(pgRoutes) - 1
               /\ HydratedUpTo(scanned, k)

\* C26: when a hydration sub-query fails during Update or Delete, the outer
\* operation returns a non-nil error, no further reference is hydrated, and
\* the storage-side effect of the mutation is committed and not rolled
\* back: the record stays updated, or stays deleted, in the store.
C26_FailedHydrationLeavesMutationCommitted ==
    [][/\ MemoryUpdateFailedHydration /\ MemoryDeleteFailedHydration
       /\ PGUpdateFailedHydration /\ PGDeleteFailedHydration
       /\ RouteFailedHydration("Update") /\ RouteFailedHydration("Delete")]_vars

\* an Update has set the profile of a stored route; the sub-query of its
\* instrument failed after the profile was resolved: the call returned an
\* error, the account is the shallow reference, the row holds the profile
C26_Witness ==
    /\ Called("routes", "Update") /\ ret.err
    /\ arg.answers["Instrument"] = "fails"
    /\ arg.record.Profile = ShallowProfile(Ptr(1))
    /\ rec.Profile = Ptr(Profile(Ptr(1), Ptr("shop"), Ptr("main"), Nil))
    /\ rec.Instrument = Shallow(Ptr(1))
    /\ rec.Account = Shallow(Ptr(2))
    /\ Len(pgRoutes) = 1 /\ pgRoutes[1].ProfileId = Ptr(1)

(***************************************************************************)
(* The reference after a hydration that found matches (SpecRefresh).       *)
(***************************************************************************)
RefreshedReference ==
    IF callee = "refreshProfileCurrency" THEN "Currency" ELSE "Reference"

FoundMatches ==
    /\ callee \in {"refreshProfileCurrency", "refreshTransactionReference"}
    /\ ~ret.err
    /\ IdBearing(arg.record[RefreshedReference])
    /\ Len(arg.q.list) > 0

\* C27: hydration replaces a reference with the first match of the by-id
\* sub-query: for every non-empty result list returned by the owning
\* repository, the reference field afterwards is the first element of that
\* list.
C27_ReferenceIsFirstMatch ==
    FoundMatches => rec[RefreshedReference] = Ptr(arg.q.list[1])

\* what the loop of the hydration leaves: the last element of the list,
\* which is the first one when the list has one element
ReferenceIsLastMatch ==
    FoundMatches => rec[RefreshedReference] = Ptr(arg.q.list[Len(arg.q.list)])

(***************************************************************************)
(* The order of the in-memory currency store and of what its Query returns *)
(* (SpecOrder).  The keys of the store in store order are the order of the *)
(* Add calls when every Add appends and nothing else moves a key.          *)
(***************************************************************************)
KeySeq(m) == [i \in 1..Len(m) |-> m[i].k]

CurrencyStep(op) == callee' = "currency" /\ ret.op = "none" /\ ret'.op = op

AddAppends ==
    (CurrencyStep("Add") /\ ~ret'.err)
    => KeySeq(currencies') = Append(KeySeq(currencies), Deref(rec'.Id))

UpdateKeepsPositions ==
    CurrencyStep("Update") => KeySeq(currencies') = KeySeq(currencies)

DeleteKeepsOrder ==
    CurrencyStep("Delete")
    => KeySeq(currencies')
         = SelectSeq(KeySeq(currencies),
                     LAMBDA k : ~(arg'.Id # Nil /\ ~ret'.err /\ k = Deref(arg'.Id)))

\* the records returned are the matching ones, each once, as they are
\* stored, at increasing positions of the store
QueryInStoreOrder ==
    (CurrencyStep("Query") /\ ~ret'.panic)
    => LET l == ret'.list
           matching == {i \in 1..Len(currencies) :
                           CurrencySpecified(arg', currencies[i].v, i - 1)}
       IN  /\ Len(l) = Cardinality(matching)
           /\ \A k \in 1..Len(l) :
                /\ OMIndex(currencies, Deref(l[k].Id)) \in matching
                /\ l[k] = Stored(currencies, Deref(l[k].Id))
           /\ \A k \in 1..(Len(l) - 1) :
                OMIndex(currencies, Deref(l[k].Id)) < OMIndex(currencies, Deref(l[k + 1].Id))

SeenCurrencyByID ==
    [i \in RefIds |-> PGPoolCurrencyStoreQuery(arg.seen, ByID(i),
                                            [j \in 1..Len(arg.seen) |-> j])]

\* the parent fields the statement scans are those of the row it wrote
StatementScansItsRow ==
    (callee' = "statement" /\ callee = "none" /\ ~ret'.err)
    => LET row == Row(pgProfiles', Deref(arg'.record.Id))
       IN  /\ rec'.Key = row.Key /\ rec'.Description = row.Description
           /\ RefId(rec'.Currency) = row.CurrencyId

\* the hydration keeps the parent fields the statement scanned and loads the
\* reference from the currencies table as it is when the hydration runs
HydrationReadsLaterState ==
    (callee = "statement" /\ callee' = "profile")
    => /\ rec'.Id = rec.Id /\ rec'.Key = rec.Key
       /\ rec'.Description = rec.Description
       /\ (IdBearing(rec.Currency) /\ HasRow(pgCurrencies, RefId(rec.Currency)))
            => /\ rec'.Currency # Nil
               /\ \A f \in CurrencyFields :
                    Deref(rec'.Currency)[f]
                      = Row(pgCurrencies, Deref(RefId(rec.Currency)))[f]

\* C29: in the relational backend the primary statement of Update and the
\* following hydration are separate steps, and a concurrent writer can change
\* a referenced entity between them: the returned record combines the parent
\* fields of the state at the statement with the fields of the referenced
\* entity in the state at the hydration.
C29_HydrationIsALaterStep ==
    [][StatementScansItsRow /\ HydrationReadsLaterState]_vars

\* an Update has returned a profile whose description is the one its
\* statement wrote and whose currency is not the one of the table the
\* statement saw
C29_Witness ==
    /\ callee = "profile" /\ ret.op = "Update" /\ ~ret.err
    /\ arg.record \in SkewUpdateInputs
    /\ rec.Description = Ptr("side")
    /\ rec.Description = Row(pgProfiles, Deref(rec.Id)).Description
    /\ IdBearing(rec.Currency)
    /\ Deref(rec.Currency).Name = Ptr("dollar")
    /\ LET atStatement ==
           RefreshProfileForeigns([rec EXCEPT !.Currency = ScanRef(@, RefId(@))],
                                  SeenCurrencyByID).profile
       IN  /\ Deref(atStatement.Currency).Name = Ptr("euro")
           /\ atStatement.Currency # rec.Currency

(***************************************************************************)
(* The expiration of sessions (SpecSession).                               *)
(***************************************************************************)
SessionStep(op) == callee' = "session" /\ ret.op = "none" /\ ret'.op = op

\* Add stores and returns the time of the Add plus expireSeconds
AddSetsExpireAt ==
    SessionStep("Add")
    => /\ rec'.ExpireAt = Ptr(now + expireSeconds)
       /\ Stored(sessions', Deref(rec'.Id)).ExpireAt = Ptr(now + expireSeconds)

\* only an Update that carries an expiration changes a stored expiration
ExpireAtKept ==
    \A i \in 1..Len(sessions) :
        LET id == sessions[i].k
        IN  (OMPresent(sessions', id)
               /\ Stored(sessions', id).ExpireAt # sessions[i].v.ExpireAt)
            => /\ SessionStep("Update")
               /\ arg'.Id = Ptr(id) /\ arg'.ExpireAt # Nil

\* Query returns a session its specification selects exactly when the time
\* of the Query is not after the expiration of the session
QueryUntilExpireAt ==
    SessionStep("Query")
    => \A i \in 1..Len(sessions) :
           SessionSpecified(arg', sessions[i].v, i - 1)
           => ((\E k \in 1..Len(ret'.list) : ret'.list[k] = sessions[i].v)
                 <=> now <= Deref(sessions[i].v.ExpireAt))

CardStep(op) == callee' = "card" /\ ret.op = "none" /\ ret'.op = op

NextIdNeverDecreases == cardNextId' >= cardNextId

AddTakesNextId ==
    (CardStep("Add") /\ ~ret'.err)
    => /\ rec'.Id = Ptr(cardNextId)
       /\ cardNextId' = cardNextId + 1
       /\ cardNextId \notin CardStoredIds(cards)
       /\ CardStoredIds(cards') = CardStoredIds(cards) \cup {cardNextId}

StoredBelowNextId == \A id \in CardStoredIds(cards') : id < cardNextId'

\* C32: across any interleaving of Add and Delete on one in-memory store no
\* identifier is assigned twice: an Add after a Delete receives an
\* identifier greater than every identifier assigned before, never the
\* identifier of a deleted record.
C32_IdentifierNeverAssignedTwice ==
    [][NextIdNeverDecreases /\ AddTakesNextId /\ StoredBelowNextId]_vars

\* the first card was deleted and the Add after it received identifier 2
C32_Witness ==
    /\ Called("card", "Add") /\ ~ret.err
    /\ rec.Id = Ptr(2)
    /\ CardStoredIds(cards) = {2}

(***************************************************************************)
(* The store over the map of its constructor (SpecBacking).                *)
(***************************************************************************)
\* C33: every successful in-memory Add increases the total count of the
\* store by exactly one and leaves every record stored before unchanged,
\* for any backing map handed to the constructor of the store.
C33_AddNeverOverwrites ==
    [][(CurrencyStep("Add") /\ ~ret'.err)
       => /\ OMLen(currencies') = OMLen(currencies) + 1
          /\ \A i \in 1..Len(currencies) : currencies'[i] = currencies[i]]_vars

\* C31: in every reachable state of an in-memory store the map key of each
\* entry equals the Id field of the record stored under it, and nextId is
\* greater than every key present.
C31_KeysAreIdsBelowNextId ==
    \A i \in 1..Len(currencies) :
        /\ currencies[i].v.Id = Ptr(currencies[i].k)
        /\ currencies[i].k < currencyNextId

\* what holds of the keys also over a map of the constructor
KeysAreIds == \A i \in 1..Len(currencies) : currencies[i].v.Id = Ptr(currencies[i].k)

(***************************************************************************)
(* What Queries return across a write of a caller (SpecAlias).             *)
(***************************************************************************)
QueryAnswers(m) == [spec \in CurrencySpecs |-> OrderedMapCurrencyStoreQuery(m, spec)]

\* C39: the contents of an in-memory store change only through the Add,
\* Update and Delete of that store: a write through a pointer-valued field,
\* Id included, of a record passed to Add or returned by Query does not
\* alter what later Queries of the store return.
C39_OnlyStoreOperationsChangeAnswers ==
    [][QueryAnswers(currencies') # QueryAnswers(currencies)
       => \/ CurrencyStep("Add")
          \/ CurrencyStep("Update")
          \/ CurrencyStep("Delete")]_vars

\* the relational store hands out values it scanned: no step but its own
\* Add, Update and Delete changes its rows
RowsChangeByOperationsOnly ==
    [][pgCurrencies' # pgCurrencies
       => \/ CurrencyStep("Add")
          \/ CurrencyStep("Update")
          \/ CurrencyStep("Delete")]_vars

(***************************************************************************)
(* Queries waiting for connections (SpecWaiting).                          *)
(***************************************************************************)
\* C34: with a pool of any capacity of at least one and a database that
\* answers every statement, every relational Query eventually returns under
\* any number of concurrent callers: no Query waits forever in Acquire.
C34_EveryQueryReturns ==
    \A p \in Procs : (callers[p] # NoFrame) ~> (callers[p] = NoFrame)

\* a Query that needs no hydration holds nothing while it waits and returns
CurrencyQueryHoldsNothingWaiting ==
    \A p \in Procs :
        (callers[p] # NoFrame /\ callers[p].entity = "currency")
        => callers[p].pc \in {"acquire", "rows"}

\* the connections are the free ones and the ones the running Queries hold
HeldConnections(p) ==
    CASE callers[p].pc \in {"idle", "acquire"} -> 0
      [] callers[p].pc \in {"rows", "hydration acquire"} -> 1
      [] callers[p].pc = "hydration rows" -> 2

RECURSIVE HeldUpTo(_)
HeldUpTo(n) == IF n = 0 THEN 0 ELSE HeldConnections(n) + HeldUpTo(n - 1)

ConnectionsConserved == poolFree + HeldUpTo(MaxProcs) = MaxConns

(***************************************************************************)
(* The nested Queries of the transaction store (SpecReference).            *)
(***************************************************************************)
\* C35: transaction Query and Update terminate for every content of the
\* transactions table: the hydration of Reference, which enters Query again
\* for the referenced transaction, stops after finitely many nested queries
\* also when a transaction references itself or references form a cycle.
C35_QueryAndUpdateTerminate == (frames # <<>>) ~> (frames = <<>>)

\* the transactions a row reaches by following reference_id, n times
RECURSIVE ReachedIn(_, _)
ReachedIn(idp, n) ==
    IF n = 0 \/ idp = Nil \/ ~HasRow(pgTransactions, idp) THEN idp
    ELSE ReachedIn(Row(pgTransactions, Deref(idp)).ReferenceId, n - 1)

\* a call for a transaction from which the references lead to no row again
\* within as many steps as the pool has connections
EndsWithinPool(idp) ==
    LET last == ReachedIn(idp, MaxConns - 1)
    IN  last = Nil \/ ~HasRow(pgTransactions, last)
          \/ Row(pgTransactions, Deref(last)).ReferenceId = Nil

\* such a call never waits for a connection
ShortChainsNeverWait ==
    (frames # <<>> /\ frames[1].op = "Query" /\ Len(frames) = 1
       /\ frames[1].pc = "acquire" /\ EndsWithinPool(frames[1].id))
    => poolFree > 0

(***************************************************************************)
(* Delete and Update of a record that is not there (SpecParents).          *)
(***************************************************************************)
MutationStep ==
    /\ ret.op = "none" /\ callee' \in {"currency", "profile"}
    /\ ret'.op \in {"Delete", "Update"}

\* the in-memory stores return before they touch anything
MemoryNotFoundTouchesNothing ==
    (MutationStep /\ ret'.notFound)
    => /\ rec' = arg'
       /\ currencies' = currencies /\ profiles' = profiles

\* the relational stores change no row
NotFoundChangesNoRow ==
    (MutationStep /\ retPg'.notFound)
    => pgCurrencies' = pgCurrencies /\ pgProfiles' = pgProfiles

\* C36: when Delete or Update returns notFound = true, neither the contents
\* of the store nor any field of the caller's input record, its reference
\* fields included, has been modified by the call.
C36_NotFoundModifiesNothing ==
    [][/\ MemoryNotFoundTouchesNothing
       /\ NotFoundChangesNoRow
       /\ (MutationStep /\ retPg'.notFound) => recPg' = arg']_vars

NotFoundLeavesStoresAlone ==
    [][MemoryNotFoundTouchesNothing /\ NotFoundChangesNoRow]_vars

(***************************************************************************)
(* What a Query leaves as it is (SpecReadOnly).                            *)
(***************************************************************************)
QueryStep ==
    /\ ret.op = "none" /\ ret'.op = "Query"
    /\ callee' \in {"currency", "profile", "session"}

\* C37: Query is read-only: for every specification Query, the hydration
\* sub-queries it makes against other repositories included, leaves the
\* contents, the order and the nextId of its own store and of every
\* referenced store unchanged.
C37_QueryIsReadOnly ==
    [][QueryStep
       => /\ currencies' = currencies /\ currencyNextId' = currencyNextId
          /\ profiles' = profiles /\ profileNextId' = profileNextId
          /\ sessions' = sessions /\ sessionNextId' = sessionNextId
          /\ pgCurrencies' = pgCurrencies /\ pgCurrencySeq' = pgCurrencySeq
          /\ pgProfiles' = pgProfiles /\ pgProfileSeq' = pgProfileSeq]_vars

\* a Query of the session store has passed over an expired session, which is
\* still stored
C37_Witness ==
    /\ Called("session", "Query") /\ arg = ByID(1)
    /\ ret.list = <<>> /\ ret.total = 1
    /\ OMPresent(sessions, 1) /\ hasExpired(Stored(sessions, 1), now)

\* the goroutine is between ps.Lock() and the deferred ps.Unlock()
InProfileStore(p) ==
    callers[p].pc \in {"profile body", "refresh", "currency query", "currency unlock",
                       "profile unlock"}

\* the goroutine is between cs.Lock() and the deferred cs.Unlock()
InCurrencyStore(p) ==
    callers[p].pc \in {"body", "set", "inc", "unlock", "currency query", "currency unlock"}

\* a mutex is held by the goroutine inside its store and by no other, and
\* a goroutine that has returned holds none
LocksFollowCalls ==
    \A p \in Procs : /\ profileMutex = p <=> InProfileStore(p)
                     /\ mutex = p <=> InCurrencyStore(p)

\* the currency lock is taken inside the profile lock or alone, and no
\* goroutine that holds the currency lock waits for the profile lock
ProfileLockFirst ==
    \A p \in Procs : mutex = p => callers[p].pc # "profile lock"

EveryCallAcquires ==
    \A p \in Procs : /\ (callers[p].pc = "lock") ~> (mutex = p)
                     /\ (callers[p].pc = "profile lock") ~> (profileMutex = p)

EveryCallReturns == \A p \in Procs : (callers[p] # NoFrame) ~> (callers[p] = NoFrame)

(* C38: concurrent calls on the in-memory profile store and the in-memory  *)
(* currency store never deadlock.  A profile operation takes the currency  *)
(* lock only while it holds its own, the currency store never takes the    *)
(* profile lock, and under fair scheduling every call on either store      *)
(* gets its lock, completes and has released every lock when it returns.   *)
C38_NoDeadlockBetweenStores ==
    /\ [](LocksFollowCalls /\ ProfileLockFirst)
    /\ EveryCallAcquires
    /\ EveryCallReturns

\* goroutine 1 is inside a profile operation, holds the profile lock and
\* waits for the currency lock, which goroutine 2 holds in a call of its own
C38_Witness ==
    /\ callers[1].pc = "refresh" /\ IdBearing(callers[1].record.Currency)
    /\ profileMutex = 1
    /\ mutex = 2 /\ callers[2].pc \in {"body", "set", "inc", "unlock"}

\* a Query of the profile store has loaded a currency, which is stored as
\* it was
QueryLoadedCurrency ==
    /\ Called("profile", "Query") /\ Len(ret.list) = 1
    /\ ret.list[1].Currency # Nil /\ OMPresent(currencies, 1)
    /\ Deref(ret.list[1].Currency) = Stored(currencies, 1)

====
